---- MODULE Spec2Model ----
(***************************************************************************)
(* Model of the Website-Downloader core (src/downloader.py):               *)
(* the resource store, the resolver, the reference rewriter passes of      *)
(* WebsiteDownloader.process and the scroll probe.                         *)
(*                                                                         *)
(* Representation of Python strings.                                       *)
(*  - A path segment / file name is a sequence of one-character strings.   *)
(*  - A reference (the text of an attribute or of a url() argument) is a   *)
(*    record tagged by the prefix tests the code performs on it:           *)
(*      "empty"  ''            "data"  'data:...'    "blob"  'blob:...'    *)
(*      "frag"   '#...'        "abs"   'https://host/seg/.../seg#frag'     *)
(*      "root"   '/seg/.../seg'        "rel"   'seg/.../seg'               *)
(*    None is [kind |-> "none"], a missing attribute [kind |-> "absent"].  *)
(*  - A saved path 'assets/<file>' is [kind |-> "local", dir |-> "assets", *)
(*    name |-> file]; os.path.basename of it has dir |-> "".               *)
(*  - CSS text is a sequence of tokens, a token being plain text or one    *)
(*    match of the url(...) regular expression.                            *)
(*  - A srcset value is a sequence of items: a space, a comma, or an atom  *)
(*    (a maximal run of characters that are neither).                      *)
(***************************************************************************)
EXTENDS Integers, Sequences, FiniteSets, TLC

\* ------------------------------------------------------------------ bounds
MaxElems == 2
MaxHrefLen == 2
MaxAnchors == 2
MaxHeight == 22
MaxCalls == 2
MaxFrames == 2
MaxClasses == 2
MaxSheets == 2
MaxSegLen == 3
MaxScripts == 2

\* ------------------------------------------------------- program constants
MaxExtLen == 6
MaxNameLen == 30
max_iterations == 20

\* ---------------------------------------------------------- basic helpers
None == [kind |-> "none"]
Absent == [kind |-> "absent"]
EmptyStr == [kind |-> "empty"]

\* Python truthiness of an optional string
Truthy(v) == v.kind \notin {"none", "absent", "empty"}

\* F applied to the value of v: the value is computed once and then named
With(v, F(_)) == CHOOSE out \in {F(x) : x \in {v}} : TRUE

Front(s) == SubSeq(s, 1, Len(s) - 1)
Last(s) == s[Len(s)]
Take(s, n) == SubSeq(s, 1, IF Len(s) < n THEN Len(s) ELSE n)

Dot == <<".">>
DotDot == <<".", ".">>

RECURSIVE SeqFilterNonEmpty(_)
SeqFilterNonEmpty(s) ==
    IF s = <<>> THEN <<>>
    ELSE IF Head(s) = <<>> THEN SeqFilterNonEmpty(Tail(s))
    ELSE <<Head(s)>> \o SeqFilterNonEmpty(Tail(s))

\* the dot-segment loop of urllib.parse.urljoin
RECURSIVE ResolveDots(_, _)
ResolveDots(segs, acc) ==
    IF segs = <<>> THEN acc
    ELSE IF Head(segs) = DotDot
         THEN ResolveDots(Tail(segs), IF acc = <<>> THEN acc ELSE Front(acc))
    ELSE IF Head(segs) = Dot
         THEN ResolveDots(Tail(segs), acc)
    ELSE ResolveDots(Tail(segs), Append(acc, Head(segs)))

NormalizePath(segs, relative) ==
    LET mid == IF relative THEN SeqFilterNonEmpty(Front(segs)) \o <<Last(segs)>>
               ELSE segs
        res == ResolveDots(mid, <<>>)
        out == IF Last(mid) \in {Dot, DotDot} THEN Append(res, <<>>) ELSE res
    IN  IF out = <<>> THEN << <<>> >> ELSE out

AbsUrl(h, segs) == [kind |-> "abs", host |-> h, segs |-> segs, frag |-> ""]

\* urllib.parse.urljoin(base, ref) for an absolute base
urljoin(base, ref) ==
    CASE ref.kind = "abs"   -> ref
      [] ref.kind = "data"  -> ref
      [] ref.kind = "blob"  -> ref
      [] ref.kind = "empty" -> base
      [] ref.kind = "frag"  -> [base EXCEPT !.frag = "f"]
      [] ref.kind = "root"  -> AbsUrl(base.host, NormalizePath(ref.segs, FALSE))
      [] ref.kind = "rel"   -> AbsUrl(base.host, NormalizePath(Front(base.segs) \o ref.segs, TRUE))

\* ------------------------------------------------------- Resource Store
\* position of the last "." of a file name, 0 if there is none
LastDot(seg) ==
    LET I == {i \in 1..Len(seg) : seg[i] = "."}
    IN  IF I = {} THEN 0 ELSE CHOOSE i \in I : \A j \in I : j <= i

\* os.path.splitext(path)[1]: leading dots of the name do not start a suffix
SplitExt(seg) ==
    LET d == LastDot(seg)
    IN  IF d > 0 /\ \E j \in 1..(d - 1) : seg[j] # "."
        THEN SubSeq(seg, d, Len(seg)) ELSE <<>>

\* mimetypes.guess_extension on the types the modelled servers declare
GuessExtension(mime) ==
    CASE mime = "text/css"   -> <<".", "c", "s", "s">>
      [] mime = "image/png"  -> <<".", "p", "n", "g">>
      [] mime = "image/jpeg" -> <<".", "j", "p", "g">>
      [] OTHER               -> <<>>

_get_extension(url, content_type) ==
    LET ext == SplitExt(Last(url.segs))
    IN  IF ext # <<>> /\ Len(ext) <= MaxExtLen THEN ext
        ELSE IF content_type # "" /\ GuessExtension(content_type) # <<>>
             THEN GuessExtension(content_type)
        ELSE <<>>

SafeChars == {"a", "b", "c", "d", "e", "f", "g", "h", "i", "j", "k", "l", "m",
              "n", "o", "p", "q", "r", "s", "t", "u", "v", "w", "x", "y", "z",
              "0", "1", "2", "3", "4", "5", "6", "7", "8", "9", "_", "-"}

\* re.sub(r'[^a-zA-Z0-9_-]', '_', s)
Sanitize(s) == [i \in 1..Len(s) |-> IF s[i] \in SafeChars THEN s[i] ELSE "_"]

\* name.split('.')[0]
BeforeFirstDot(seg) ==
    LET I == {i \in 1..Len(seg) : seg[i] = "."}
    IN  IF I = {} THEN seg
        ELSE SubSeq(seg, 1, (CHOOSE i \in I : \A j \in I : i <= j) - 1)

\* hashlib.md5(url.encode()).hexdigest()[:12]; the digest prefix of a URL is
\* represented by the URL it was computed from (distinct URLs of the model
\* have distinct prefixes)
Md5Prefix(url) == [md5 |-> url]

\* mutant: the hash is taken of the file name instead of the whole URL
_generate_filename_namehash(url, content_type) ==
    LET seg == Last(url.segs)
        name == IF seg # <<>> THEN Take(Sanitize(BeforeFirstDot(seg)), MaxNameLen)
                ELSE <<"r", "e", "s", "o", "u", "r", "c", "e">>
    IN  [base |-> name, hash |-> Md5Prefix(seg), ext |-> _get_extension(url, content_type)]

\* the file name  f"{name}_{url_hash}{ext}"
_generate_filename(url, content_type) ==
    LET seg == Last(url.segs)
        name == IF seg # <<>> THEN Take(Sanitize(BeforeFirstDot(seg)), MaxNameLen)
                ELSE <<"r", "e", "s", "o", "u", "r", "c", "e">>
    IN  [base |-> name, hash |-> Md5Prefix(url), ext |-> _get_extension(url, content_type)]

LocalPath(fn) == [kind |-> "local", dir |-> "assets", name |-> fn]
\* mutant: the directory is kept
Basename_keepdir(p) == p

\* os.path.basename of a saved path
Basename(p) == [kind |-> "local", dir |-> "", name |-> p.name]

EmptyBody == [t |-> "empty"]
Bytes == [t |-> "bytes"]
CssBody(toks) == IF toks = <<>> THEN EmptyBody ELSE [t |-> "css", toks |-> toks]

VARIABLES
    pc,                 \* position of the job inside process()
    idx,                \* index of the next element of the running pass
    doc,                \* the document tree (soup), a sequence of elements
    orig,               \* the document as it was parsed (history)
    sheetText,          \* the text the site serves for a stylesheet URL
    network_resources,  \* url -> [body, content_type], filled by the capture callback
    resource_cache,     \* url -> saved local path
    files,              \* file name under assets/ -> content
    fetches,            \* url -> number of session.get calls (history)
    calls,              \* the _get_resource calls made so far (history)
    cssLookups,         \* the url() tokens resolved so far (history)
    failures,           \* number of failed fallback fetches (history)
    index_html,         \* the written output document, Absent before
    result,             \* what process() returned
    iteration, current, total_height, viewport_height, spc, scrolls, toTop,
    jpc,                \* position of the job thread inside process_download()
    download_dir,       \* TRUE iff downloads/<request_id> exists
    zip_file,           \* TRUE iff downloads/<request_id>.zip exists
    job_status,         \* download_results[session_id]['status']
    queue,              \* the messages put on the session's queue
    nav,                \* how page.goto ended
    html_content,       \* what the renderer handed over as the document
    page,               \* the rendered page as Frame Resolution sees it
    frame_result,       \* what _extract_iframe_content returned, with the base URL
    soup,               \* the parsed document the Presentation Normalizer works on
    fixes,              \* the document after each application of the scroll fix
    name_url,           \* the URL and content type a file name is generated for
    filename,           \* the generated file name
    stream_pc,          \* position of the stream generator of the session
    last_event,         \* what the stream emitted last
    in_queues,          \* session_id in message_queues
    in_results,         \* session_id in download_results
    dl_pc,              \* "cleanup" while a cleanup thread of download_file is pending
    served_status,      \* the status under which the zip was last served, "none" before
    aged                \* the session was completed more than 30 minutes ago

vars == <<pc, idx, doc, orig, sheetText, network_resources, resource_cache, files,
          fetches, calls, cssLookups, failures, index_html, result,
          iteration, current, total_height, viewport_height, spc, scrolls, toTop,
          jpc, download_dir, zip_file, job_status, queue, nav, html_content,
          page, frame_result, soup, fixes, name_url, filename,
          stream_pc, last_event, in_queues, in_results, dl_pc, served_status, aged>>

jobVars == <<pc, idx, doc, orig, sheetText, network_resources, resource_cache, files,
             fetches, calls, cssLookups, failures, index_html, result>>
scrollVars == <<iteration, current, total_height, viewport_height, spc, scrolls, toTop>>
appVars == <<jpc, download_dir, zip_file, job_status, queue, nav, html_content>>
\* the state outside the snapshot job and its scroll probe
\* the inputs and results of the functions that are examined on their own
frameVars == <<page, frame_result>>
fixVars == <<soup, fixes>>
nameVars == <<name_url, filename>>
pureVars == <<frameVars, fixVars, nameVars>>
\* the session tables of the web application and the threads that serve a session
sessVars == <<stream_pc, last_event, in_queues, in_results, dl_pc, served_status, aged>>
extVars == <<appVars, pureVars, sessVars>>

\* self.base_url after navigation: page.url
base_url == AbsUrl("a.test", << <<>> >>)

\* st: the job state threaded through the resolver
\*   cache   resource_cache           files   the files under assets/
\*   fetches number of session.get calls per URL
\*   ocs     outcomes of the coming fallback fetches, in call order
\*   calls   every _get_resource call made so far, with its result
\*   calls, cssLookups, failures: the history variables of the same name
\*   raised  an exception has escaped and is propagating out of process()
\* mutant: the check of the cache is missing, every save writes the file
_save_resource_overwrite(st, url, content, content_type) ==
    IF content = EmptyBody THEN [ret |-> None, st |-> st]
    ELSE With(_generate_filename(url, content_type), LAMBDA fn :
           [ret |-> LocalPath(fn),
            st  |-> [st EXCEPT !.files = (fn :> content) @@ @,
                               !.cache = (url :> LocalPath(fn)) @@ @]])

_save_resource(st, url, content, content_type) ==
    IF url \in DOMAIN st.cache THEN [ret |-> st.cache[url], st |-> st]
    ELSE IF content = EmptyBody THEN [ret |-> None, st |-> st]
    ELSE With(_generate_filename(url, content_type), LAMBDA fn :
           [ret |-> LocalPath(fn),
            st  |-> [st EXCEPT !.files = (fn :> content) @@ @,
                               !.cache = (url :> LocalPath(fn)) @@ @]])

\* ---------------------------------------------------- the fallback client
Outcomes == {"ok", "timeout", "transport", "status404"}

CssSuffix == <<".", "c", "s", "s">>
JpgSuffix == <<".", "j", "p", "g">>
\* what the site answers for a URL when the request succeeds: the sheet text for
\* a .css URL, a zero-length body for its tracking pixel, image bytes otherwise
PixelUrl == AbsUrl("b.test", << <<"i", "m", "g">>, <<"p", "x">> >>)
ServedBody(url) ==
    IF SplitExt(Last(url.segs)) = CssSuffix THEN CssBody(sheetText)
    ELSE IF url = PixelUrl THEN EmptyBody
    ELSE Bytes
ServedType(url) ==
    CASE SplitExt(Last(url.segs)) = CssSuffix -> "text/css"
      [] SplitExt(Last(url.segs)) = JpgSuffix -> "image/jpeg"
      [] OTHER -> "image/png"

CountFetch(f, url) == IF url \in DOMAIN f THEN [f EXCEPT ![url] = @ + 1] ELSE (url :> 1) @@ f

\* one session.get(url, timeout=15): consumes the next outcome
SessionGet(st, url) ==
    [oc |-> Head(st.ocs),
     st |-> [st EXCEPT !.ocs = Tail(@), !.fetches = CountFetch(@, url),
                       !.failures = IF Head(st.ocs) = "ok" THEN @ ELSE @ + 1]]

\* mutant: a same-document anchor is treated as a fetchable reference
NotFetchable_nofrag(url) == url.kind \in {"none", "absent", "empty", "data", "blob"}

\* not url or url.startswith('data:') or url.startswith('blob:') or url.startswith('#')
NotFetchable(url) == url.kind \in {"none", "absent", "empty", "data", "blob", "frag"}

\* mutant: the try/except around session.get is missing
_download_fallback_uncaught(st, url) ==
    IF url \in DOMAIN st.cache THEN [ret |-> st.cache[url], st |-> st]
    ELSE IF NotFetchable(url) THEN [ret |-> url, st |-> st]
    ELSE With(SessionGet(st, url), LAMBDA g :
           IF g.oc \in {"timeout", "transport"}
           THEN [ret |-> None, st |-> [g.st EXCEPT !.raised = TRUE]]
           ELSE IF g.oc = "ok"
           THEN _save_resource(g.st, url, ServedBody(url), ServedType(url))
           ELSE [ret |-> None, st |-> g.st])

_download_fallback(st, url) ==
    IF url \in DOMAIN st.cache THEN [ret |-> st.cache[url], st |-> st]
    ELSE IF NotFetchable(url) THEN [ret |-> url, st |-> st]
    ELSE With(SessionGet(st, url), LAMBDA g :
           IF g.oc \in {"timeout", "transport"}
           THEN [ret |-> None, st |-> g.st]           \* raised; except Exception: pass
           ELSE IF g.oc = "ok"
           THEN _save_resource(g.st, url, ServedBody(url), ServedType(url))
           ELSE [ret |-> None, st |-> g.st])

\* ------------------------------------------------------- Resource Resolver
Recorded(r, url, abs) ==
    [r EXCEPT !.st.calls = @ \cup {[ref |-> url, abs |-> abs, ret |-> r.ret]}]

_get_resource(st, url, base) ==
    IF NotFetchable(url) THEN Recorded([ret |-> url, st |-> st, abs |-> url], url, url)
    ELSE With(urljoin(IF Truthy(base) THEN base ELSE base_url, url), LAMBDA abs_url :
           With(IF abs_url \in DOMAIN st.cache
                  THEN [ret |-> st.cache[abs_url], st |-> st]
                ELSE IF abs_url \in DOMAIN network_resources
                  THEN _save_resource(st, abs_url, network_resources[abs_url].body,
                                      network_resources[abs_url].content_type)
                ELSE With(_download_fallback(st, abs_url), LAMBDA d :
                       [ret |-> IF Truthy(d.ret) THEN d.ret ELSE url, st |-> d.st]),
                LAMBDA r : Recorded([ret |-> r.ret, st |-> r.st, abs |-> abs_url],
                                    url, abs_url)))

\* ------------------------------------------------------ Reference Rewriter
TextTok == [t |-> "text"]
UrlTok(q, arg) == [t |-> "url", q |-> q, arg |-> arg]

\* mutant: the token is joined against the page URL
TokenUrl_pagebase(css_url, url_content) == urljoin(base_url, url_content)

\* replacer: abs_url = urljoin(css_url, url_content)
TokenUrl(css_url, url_content) == urljoin(css_url, url_content)

\* re.sub(r'url\(\s*([^)]+)\s*\)', replacer, css_content), token by token
RECURSIVE _rewrite_css_urls(_, _, _)
_rewrite_css_urls(st, css_content, css_url) ==
    IF css_content = <<>> THEN [out |-> <<>>, st |-> st]
    ELSE With(Head(css_content), LAMBDA tok :
           IF tok.t # "url" \/ ~Truthy(tok.arg) \/ tok.arg.kind = "data"
           THEN With(_rewrite_css_urls(st, Tail(css_content), css_url), LAMBDA keep :
                  [out |-> <<tok>> \o keep.out, st |-> keep.st])
           ELSE With(_get_resource(st, TokenUrl(css_url, tok.arg), None), LAMBDA r :
                  With(_rewrite_css_urls(
                         [r.st EXCEPT !.cssLookups = @ \cup
                            {[css_url |-> css_url, token |-> tok.arg, looked |-> r.abs]}],
                         Tail(css_content), css_url),
                       LAMBDA rest :
                         [out |-> <<IF Truthy(r.ret) /\ r.ret.kind = "local"
                                          /\ r.ret.dir = "assets"
                                    THEN UrlTok("dq", Basename(r.ret)) ELSE tok>> \o rest.out,
                          st  |-> rest.st])))

Sp == [t |-> "sp"]
Comma == [t |-> "comma"]
Atom(v) == [t |-> "atom", v |-> v]
SrcsetVal(items) == [kind |-> "srcset", items |-> items]

\* s.split(',')
RECURSIVE SplitComma(_, _)
SplitComma(items, cur) ==
    IF items = <<>> THEN <<cur>>
    ELSE IF Head(items) = Comma THEN <<cur>> \o SplitComma(Tail(items), <<>>)
    ELSE SplitComma(Tail(items), Append(cur, Head(items)))

\* s.strip()
RECURSIVE LStrip(_)
LStrip(s) == IF s # <<>> /\ Head(s) = Sp THEN LStrip(Tail(s)) ELSE s
RECURSIVE RStrip(_)
RStrip(s) == IF s # <<>> /\ Last(s) = Sp THEN RStrip(Front(s)) ELSE s
Strip(s) == RStrip(LStrip(s))

\* s.split(): the atoms of a part, in order
RECURSIVE SplitWs(_)
SplitWs(s) ==
    IF s = <<>> THEN <<>>
    ELSE IF Head(s) = Sp THEN SplitWs(Tail(s)) ELSE <<Head(s)>> \o SplitWs(Tail(s))

\* sep.join(parts)
RECURSIVE Join(_, _)
Join(parts, sep) ==
    IF parts = <<>> THEN <<>>
    ELSE IF Len(parts) = 1 THEN parts[1]
    ELSE parts[1] \o sep \o Join(Tail(parts), sep)

RECURSIVE SrcsetParts(_, _, _)
SrcsetParts(st, parts, base) ==
    IF parts = <<>> THEN [out |-> <<>>, st |-> st]
    ELSE LET part == Strip(Head(parts))
             tokens == SplitWs(part)
         IN  IF part = <<>> \/ tokens = <<>> THEN SrcsetParts(st, Tail(parts), base)
             ELSE LET url == tokens[1].v
                      descriptor == Join([i \in 1..(Len(tokens) - 1) |-> <<tokens[i + 1]>>], <<Sp>>)
                  IN  IF url.kind = "data"
                      THEN With(SrcsetParts(st, Tail(parts), base), LAMBDA rest :
                             [out |-> <<part>> \o rest.out, st |-> rest.st])
                      ELSE With(_get_resource(st, url, base), LAMBDA r :
                             With(SrcsetParts(r.st, Tail(parts), base), LAMBDA rest :
                               [out |-> <<IF Truthy(r.ret) /\ r.ret # url
                                          THEN Strip(<<Atom(r.ret), Sp>> \o descriptor)
                                          ELSE part>> \o rest.out,
                                st  |-> rest.st]))

_process_srcset(st, srcset, base) ==
    IF srcset = <<>> THEN [out |-> srcset, st |-> st]
    ELSE With(SrcsetParts(st, SplitComma(srcset, <<>>), base), LAMBDA r :
           [out |-> IF r.out # <<>> THEN Join(r.out, <<Comma, Sp>>) ELSE srcset, st |-> r.st])

\* ------------------------------------------------------------ Document Tree
Elem(tag, attrs) == [tag |-> tag, attrs |-> attrs, css |-> <<>>]
StyleTag(css) == [tag |-> "style", attrs |-> <<>>, css |-> css]
Get(e, n) == IF n \in DOMAIN e.attrs THEN e.attrs[n] ELSE Absent
Set(e, n, v) == [e EXCEPT !.attrs = (n :> v) @@ @]
Del(e, n) == [e EXCEPT !.attrs = [a \in (DOMAIN @) \ {n} |-> @[a]]]
Word(w) == [kind |-> "word", w |-> w]
Text(chars) == [kind |-> "text", chars |-> chars]
CssVal(toks) == [kind |-> "css", toks |-> toks]

\* the common shape of the attribute passes:
\*   local_path = self._get_resource(v); if local_path and local_path != v: e[n] = local_path
ResolveAttr(x, n) ==
    With(_get_resource(x.st, Get(x.elem, n), None), LAMBDA r :
      IF Truthy(r.ret) /\ r.ret # Get(x.elem, n)
      THEN [elem |-> Set(x.elem, n, r.ret), st |-> r.st, hit |-> TRUE]
      ELSE [elem |-> x.elem, st |-> r.st, hit |-> FALSE])

\* body.decode('utf-8', errors='ignore') / response.text
Decode(body) ==
    CASE body.t = "css"   -> body.toks
      [] body.t = "bytes" -> <<TextTok>>
      [] OTHER            -> <<>>

\* 1. one <link rel="stylesheet"> of the stylesheet pass
StylesheetLink(st, link) ==
    LET href == Get(link, "href")
    IN  IF ~Truthy(href) \/ href.kind = "data" THEN [elem |-> link, st |-> st]
        ELSE
        With(urljoin(base_url, href), LAMBDA abs_url :
        With(IF abs_url \in DOMAIN network_resources
             THEN Decode(network_resources[abs_url].body) ELSE <<>>, LAMBDA captured :
        With(IF captured # <<>> THEN [css |-> captured, st |-> st]
             ELSE With(SessionGet(st, abs_url), LAMBDA g :
                    IF g.oc = "ok" THEN [css |-> Decode(ServedBody(abs_url)), st |-> g.st]
                    ELSE [css |-> <<>>, st |-> g.st]),      \* except: pass
             LAMBDA fetched :
        IF fetched.css = <<>> THEN [elem |-> link, st |-> fetched.st]
        ELSE
        With(_rewrite_css_urls(fetched.st, fetched.css, abs_url), LAMBDA rw :
        With(_save_resource(rw.st, abs_url, CssBody(rw.out), "text/css"), LAMBDA sv :
          [elem |-> IF Truthy(sv.ret) THEN Set(link, "href", sv.ret) ELSE link,
           st   |-> sv.st])))))

\* 2. one <style> block
StyleBlock(st, tag) ==
    IF tag.css = <<>> THEN [elem |-> tag, st |-> st]
    ELSE With(_rewrite_css_urls(st, tag.css, base_url), LAMBDA rw :
           [elem |-> [tag EXCEPT !.css = rw.out], st |-> rw.st])

RECURSIVE DelAll(_, _)
DelAll(e, names) ==
    IF names = <<>> THEN e
    ELSE DelAll(IF Head(names) \in DOMAIN e.attrs THEN Del(e, Head(names)) ELSE e, Tail(names))

\* 3. one <script src>
ScriptSrc(st, script) ==
    LET src == Get(script, "src")
    IN  IF ~Truthy(src) \/ src.kind = "data" THEN [elem |-> script, st |-> st]
        ELSE With(ResolveAttr([elem |-> script, st |-> st], "src"), LAMBDA r :
               [elem |-> IF r.hit
                         THEN DelAll(r.elem, <<"integrity", "crossorigin", "nonce">>)
                         ELSE r.elem,
                st   |-> r.st])

LazyAttrs == <<"data-src", "data-original", "data-lazy-src", "data-url", "data-image", "data-bg">>

\* the first lazy attribute that is present and non-empty, 0 if none
FirstLazy(e) ==
    LET I == {i \in 1..Len(LazyAttrs) : Truthy(Get(e, LazyAttrs[i]))}
    IN  IF I = {} THEN 0 ELSE CHOOSE i \in I : \A j \in I : i <= j

SrcsetAttr(x, n) ==
    LET v == Get(x.elem, n)
    IN  IF v.kind = "srcset" /\ v.items # <<>>
        THEN With(_process_srcset(x.st, v.items, None), LAMBDA r :
               [elem |-> Set(x.elem, n, SrcsetVal(r.out)), st |-> r.st])
        ELSE x

\* 4. one media-bearing element
MediaElem(st, elem) ==
    LET src0 == Get(elem, "src")
        k == FirstLazy(elem)
    IN
    \* lazy-loading attributes: the first non-empty one wins
    With(IF k = 0 THEN [elem |-> elem, st |-> st, src |-> src0]
         ELSE With(_get_resource(st, elem.attrs[LazyAttrs[k]], None), LAMBDA r :
                IF Truthy(r.ret) /\ r.ret # elem.attrs[LazyAttrs[k]]
                THEN [elem |-> Del(Set(elem, "src", r.ret), LazyAttrs[k]),
                      st |-> r.st, src |-> None]
                ELSE [elem |-> elem, st |-> r.st, src |-> src0]),
         LAMBDA lz :
    \* src, unless a lazy attribute has replaced it
    With(IF Truthy(lz.src) /\ lz.src.kind # "data"
         THEN With(_get_resource(lz.st, lz.src, None), LAMBDA r :
                [elem |-> IF Truthy(r.ret) /\ r.ret # lz.src
                          THEN Set(lz.elem, "src", r.ret) ELSE lz.elem,
                 st   |-> r.st])
         ELSE [elem |-> lz.elem, st |-> lz.st],
         LAMBDA a :
    With(SrcsetAttr(a, "srcset"), LAMBDA b :
    With(SrcsetAttr(b, "data-srcset"), LAMBDA c :
      IF elem.tag = "video" /\ Truthy(Get(elem, "poster"))
      THEN With(ResolveAttr(c, "poster"), LAMBDA r : [elem |-> r.elem, st |-> r.st])
      ELSE c))))

HasUrlTok(toks) == \E i \in 1..Len(toks) : toks[i].t = "url"

\* 5. one element carrying a style attribute
StyleAttr(st, elem) ==
    LET style == elem.attrs["style"]
    IN  IF HasUrlTok(style.toks)
        THEN With(_rewrite_css_urls(st, style.toks, base_url), LAMBDA rw :
               [elem |-> Set(elem, "style", CssVal(rw.out)), st |-> rw.st])
        ELSE [elem |-> elem, st |-> st]

IconRels == {"icon", "apple-touch-icon", "manifest"}

\* 6. one <link>: icons and manifests
IconLink(st, link) ==
    LET href == Get(link, "href")
        rel == Get(link, "rel")
    IN  IF Truthy(href) /\ Truthy(rel) /\ rel.w \in IconRels /\ href.kind # "data"
        THEN With(ResolveAttr([elem |-> link, st |-> st], "href"), LAMBDA r :
               [elem |-> r.elem, st |-> r.st])
        ELSE [elem |-> link, st |-> st]

ImageProps == {"og:image", "twitter:image"}

\* 7. one <meta content>
MetaImage(st, meta) ==
    LET prop == IF Truthy(Get(meta, "property")) THEN Get(meta, "property") ELSE Get(meta, "name")
        content == Get(meta, "content")
    IN  IF Truthy(prop) /\ prop.w \in ImageProps /\ Truthy(content)
           /\ content.kind \in {"abs", "root"}
        THEN With(ResolveAttr([elem |-> meta, st |-> st], "content"), LAMBDA r :
               [elem |-> r.elem, st |-> r.st])
        ELSE [elem |-> meta, st |-> st]

\* 8. one element carrying data-background
Background(st, elem) ==
    LET bg == Get(elem, "data-background")
    IN  IF Truthy(bg) /\ bg.kind # "data"
        THEN With(ResolveAttr([elem |-> elem, st |-> st], "data-background"), LAMBDA r :
               [elem |-> r.elem, st |-> r.st])
        ELSE [elem |-> elem, st |-> st]

\* mutant: the protocol-relative exclusion is missing
NavLink_noproto(a) ==
    LET href == a.attrs["href"].chars
    IN  IF href # <<>> /\ href[1] = "/" THEN Set(a, "href", [kind |-> "text", chars |-> <<"#">>])
        ELSE a

\* 9. one <a href>
Hash == Text(<<"#">>)
NavLink(a) ==
    LET href == a.attrs["href"].chars
    IN  IF href = <<"/">> THEN Set(a, "href", Hash)
        ELSE IF href # <<>> /\ href[1] = "/" /\ ~(Len(href) >= 2 /\ href[2] = "/")
        THEN Set(a, "href", Hash)
        ELSE a

\* ------------------------------------------------------------------ inputs
SegY == <<"y", ".", "p", "n", "g">>
SegImg == <<"i", "m", "g">>
SegCss == <<"c", "s", "s">>
SegXCss == <<"x", ".", "c", "s", "s">>
SegAJs == <<"a", ".", "j", "s">>
SegSprite == <<"s", "p", "r", "i", "t", "e", ".", "p", "n", "g">>
SegLazy == <<"l", "a", "z", "y", ".", "j", "p", "g">>

Rel(segs) == [kind |-> "rel", segs |-> segs]
Root(segs) == [kind |-> "root", segs |-> segs]
DataRef == [kind |-> "data"]

RelY == Rel(<<SegY>>)                       \* y.png
UpY == Rel(<<DotDot, SegImg, SegY>>)        \* ../img/y.png
RootY == Root(<<SegImg, SegY>>)             \* /img/y.png
AbsY == AbsUrl("b.test", <<SegImg, SegY>>)  \* https://b.test/img/y.png
SheetRef == Rel(<<SegCss, SegXCss>>)        \* css/x.css
Desc1x == Rel(<< <<"1", "x">> >>)           \* the descriptor 1x

ElemPool == {
    Elem("link", ("rel" :> Word("stylesheet")) @@ ("href" :> SheetRef)),
    StyleTag(<<TextTok, UrlTok("", RelY)>>),
    Elem("script", ("src" :> Rel(<<SegAJs>>)) @@ ("integrity" :> Word("sha384"))),
    Elem("img", ("data-src" :> RootY) @@ ("src" :> RelY)),
    Elem("img", ("src" :> UpY)
                  @@ ("srcset" :> SrcsetVal(<<Atom(RootY), Sp, Atom(Desc1x), Comma, Atom(AbsY)>>))),
    Elem("a", ("href" :> Text(<<"/">>)) @@ ("style" :> CssVal(<<UrlTok("sq", UpY)>>))
                @@ ("data-background" :> RelY)),
    Elem("link", ("rel" :> Word("icon")) @@ ("href" :> RootY)),
    Elem("meta", ("property" :> Word("og:image")) @@ ("content" :> PixelUrl)) }

SheetTexts == { <<UrlTok("", RelY), TextTok, UrlTok("dq", UpY)>>,
                <<UrlTok("", DataRef)>> }

\* the page of the end-to-end scenario and its stylesheet
E2ESheet == <<TextTok, UrlTok("", Rel(<<SegSprite>>))>>
E2EDoc == << Elem("link", ("rel" :> Word("stylesheet")) @@ ("href" :> SheetRef)),
             Elem("img", ("data-src" :> Rel(<<SegLazy>>))),
             Elem("a", ("href" :> Text(<<"/", "a", "b", "o", "u", "t">>))) >>

RECURSIVE SeqsUpTo(_, _)
SeqsUpTo(S, n) ==
    IF n = 0 THEN {<<>>}
    ELSE LET T == SeqsUpTo(S, n - 1)
         IN  T \cup {Append(t, x) : t \in {u \in T : Len(u) = n - 1}, x \in S}

IsStylesheetLink(e) == e.tag = "link" /\ Get(e, "rel") = Word("stylesheet")
HasSheet(d) == \E i \in 1..Len(d) : IsStylesheetLink(d[i])

Resolvable(v) == v.kind \in {"abs", "root", "rel"}
TokRefs(toks) == {toks[i].arg : i \in {j \in 1..Len(toks) : toks[j].t = "url"}}
ValueRefs(v) ==
    CASE Resolvable(v)     -> {v}
      [] v.kind = "css"    -> {r \in TokRefs(v.toks) : Resolvable(r)}
      [] v.kind = "srcset" -> {v.items[i].v : i \in {j \in 1..Len(v.items) :
                                   v.items[j].t = "atom" /\ v.items[j].v # Desc1x}}
      [] OTHER             -> {}
ElemRefs(e) == UNION {ValueRefs(e.attrs[n]) : n \in DOMAIN e.attrs}
                 \cup {r \in TokRefs(e.css) : Resolvable(r)}

\* the URLs the page makes the browser or the resolver ask for
Needed(d, sheet) ==
    {urljoin(base_url, r) : r \in UNION {ElemRefs(d[i]) : i \in 1..Len(d)}}
      \cup (IF HasSheet(d)
            THEN {urljoin(urljoin(base_url, SheetRef), r) : r \in {t \in TokRefs(sheet) : Resolvable(t)}}
            ELSE {})

\* the site answers requests for /img/y.png with a redirect to the CDN copy
RedirectSources(url) == IF url = AbsY THEN {urljoin(base_url, RootY)} ELSE {}

\* ------------------------------------------------------------------- passes
Passes == <<"stylesheets", "styles", "scripts", "media", "style_attrs",
            "icons", "meta", "backgrounds", "nav">>

MediaTags == {"img", "source", "video", "audio", "picture", "input"}

\* the soup.find_all(...) filter of each pass
Matches(pass, e) ==
    CASE pass = "stylesheets" -> IsStylesheetLink(e)
      [] pass = "styles"      -> e.tag = "style"
      [] pass = "scripts"     -> e.tag = "script" /\ "src" \in DOMAIN e.attrs
      [] pass = "media"       -> e.tag \in MediaTags
      [] pass = "style_attrs" -> "style" \in DOMAIN e.attrs
      [] pass = "icons"       -> e.tag = "link"
      [] pass = "meta"        -> e.tag = "meta" /\ "content" \in DOMAIN e.attrs
      [] pass = "backgrounds" -> "data-background" \in DOMAIN e.attrs
      [] pass = "nav"         -> e.tag = "a" /\ "href" \in DOMAIN e.attrs

\* the next (pass, element) the sequential loops of process() reach
RECURSIVE NextPos(_, _, _)
NextPos(p, i, d) ==
    IF p > Len(Passes) THEN [pc |-> "save", idx |-> 1]
    ELSE IF i > Len(d) THEN NextPos(p + 1, 1, d)
    ELSE IF Matches(Passes[p], d[i]) THEN [pc |-> Passes[p], idx |-> i]
    ELSE NextPos(p, i + 1, d)

\* number of candidates of a srcset value
NumParts(v) == IF v.kind = "srcset"
               THEN 1 + Cardinality({i \in 1..Len(v.items) : v.items[i] = Comma}) ELSE 0
One(b) == IF b THEN 1 ELSE 0
NumUrlToks(toks) == Cardinality({i \in 1..Len(toks) : toks[i].t = "url"})

\* upper bound on the session.get calls processing element e in a pass can make
FetchBound(pass, e) ==
    CASE pass = "stylesheets" -> 1 + NumUrlToks(sheetText)
      [] pass = "styles"      -> NumUrlToks(e.css)
      [] pass = "media"       -> One(FirstLazy(e) > 0) + One(Truthy(Get(e, "src")))
                                   + One(Truthy(Get(e, "poster")))
                                   + NumParts(Get(e, "srcset")) + NumParts(Get(e, "data-srcset"))
      [] pass = "style_attrs" -> NumUrlToks(e.attrs["style"].toks)
      [] pass = "nav"         -> 0
      [] OTHER                -> 1

PassIndex(pass) == CHOOSE p \in 1..Len(Passes) : Passes[p] = pass

\* ---------------------------------------------------------------- the job
\* no job thread is running
InitApp ==
    /\ jpc = "idle" /\ download_dir = FALSE /\ zip_file = FALSE
    /\ job_status = "processing" /\ queue = <<>> /\ nav = "pending" /\ html_content = "none"

InitFrameVars == page = None /\ frame_result = None
InitFixVars == soup = None /\ fixes = <<>>
InitNameVars == name_url = None /\ filename = None
InitPure == InitFrameVars /\ InitFixVars /\ InitNameVars

\* no session exists
InitSess ==
    /\ stream_pc = "off" /\ last_event = "none"
    /\ in_queues = FALSE /\ in_results = FALSE
    /\ dl_pc = "idle" /\ served_status = "none" /\ aged = FALSE

InitExt == InitApp /\ InitPure /\ InitSess

InitScroll ==
    /\ iteration = 0 /\ current = 0 /\ total_height = 0 /\ viewport_height = 0
    /\ spc = "idle" /\ scrolls = 0 /\ toTop = FALSE
    /\ InitExt

InitJob(d, sheet) ==
    /\ pc = "render" /\ idx = 1
    /\ doc = d /\ orig = d /\ sheetText = sheet
    /\ network_resources = <<>> /\ resource_cache = <<>> /\ files = <<>>
    /\ fetches = <<>> /\ calls = {} /\ cssLookups = {} /\ failures = 0
    /\ index_html = Absent /\ result = None

Docs == (SeqsUpTo(ElemPool, MaxElems) \ {<<>>}) \cup {E2EDoc}

Init ==
    /\ \E d \in Docs :
         \E sheet \in (IF d = E2EDoc THEN {E2ESheet}
                       ELSE IF HasSheet(d) THEN SheetTexts ELSE {<<TextTok>>}) :
            InitJob(d, sheet)
    /\ InitScroll

\* mutant: the browser is still open while the document is processed
BrowserOpen_unclosed(p) == p \notin {"save", "done", "aborted"}

\* the callback runs only inside calls on the page, which all come before
\* browser.close()
BrowserOpen(p) == p \in {"render", "settle"}

\* capture_response: the page.on("response") callback
CaptureResponse ==
    /\ BrowserOpen(pc)
    /\ \E url \in Needed(orig, sheetText), status \in {200, 404} :
       \E request_url \in {url} \cup RedirectSources(url) :
         LET resource_data == [body |-> ServedBody(url),
                               content_type |-> ServedType(url)]
         IN  network_resources' =
               IF status = 200
               THEN (IF request_url # url THEN (request_url :> resource_data) ELSE <<>>)
                      @@ (url :> resource_data) @@ network_resources
               ELSE network_resources
    /\ UNCHANGED <<pc, idx, doc, orig, sheetText, resource_cache, files, fetches, calls,
                   cssLookups, failures, index_html, result>>
    /\ UNCHANGED scrollVars
    /\ UNCHANGED extVars

\* page.goto returns (or raises and is logged); base_url = page.url
GotoDone ==
    /\ pc = "render"
    /\ pc' = "settle"
    /\ UNCHANGED <<idx, doc, orig, sheetText, network_resources, resource_cache, files,
                   fetches, calls, cssLookups, failures, index_html, result>>
    /\ UNCHANGED scrollVars
    /\ UNCHANGED extVars

\* the settle delay and the scroll probe are over: page.content(), browser.close(),
\* BeautifulSoup(html_content); the first pass starts
GetContent ==
    /\ pc = "settle"
    /\ LET n == NextPos(1, 1, doc) IN pc' = n.pc /\ idx' = n.idx
    /\ UNCHANGED <<doc, orig, sheetText, network_resources, resource_cache, files,
                   fetches, calls, cssLookups, failures, index_html, result>>
    /\ UNCHANGED scrollVars
    /\ UNCHANGED extVars

St(ocs) == [cache |-> resource_cache, files |-> files, fetches |-> fetches,
            calls |-> calls, cssLookups |-> cssLookups, failures |-> failures,
            ocs |-> ocs, raised |-> FALSE]

\* store the outcome of processing element idx and move to the next one
Commit(r) ==
    /\ doc' = [doc EXCEPT ![idx] = r.elem]
    /\ resource_cache' = r.st.cache
    /\ files' = r.st.files
    /\ fetches' = r.st.fetches
    /\ calls' = r.st.calls
    /\ cssLookups' = r.st.cssLookups
    /\ failures' = r.st.failures
    /\ LET n == NextPos(PassIndex(pc), idx + 1, doc')
       IN  IF r.st.raised THEN pc' = "aborted" /\ idx' = idx
           ELSE pc' = n.pc /\ idx' = n.idx
    /\ UNCHANGED <<orig, sheetText, network_resources, index_html, result>>
    /\ UNCHANGED scrollVars
    /\ UNCHANGED extVars

OutcomeSeqs(e) == [1..FetchBound(pc, e) -> Outcomes]

\* the outcomes no fetch consumed are irrelevant: one representative is enough
Unused(r) == \A i \in 1..Len(r.st.ocs) : r.st.ocs[i] = "ok"

ProcessStylesheet ==
    /\ pc = "stylesheets"
    /\ \E ocs \in OutcomeSeqs(doc[idx]) : 
         \E r \in {StylesheetLink(St(ocs), doc[idx])} : Unused(r) /\ Commit(r)

ProcessStyleTag ==
    /\ pc = "styles"
    /\ \E ocs \in OutcomeSeqs(doc[idx]) : 
         \E r \in {StyleBlock(St(ocs), doc[idx])} : Unused(r) /\ Commit(r)

ProcessScript ==
    /\ pc = "scripts"
    /\ \E ocs \in OutcomeSeqs(doc[idx]) : 
         \E r \in {ScriptSrc(St(ocs), doc[idx])} : Unused(r) /\ Commit(r)

ProcessMedia ==
    /\ pc = "media"
    /\ \E ocs \in OutcomeSeqs(doc[idx]) : 
         \E r \in {MediaElem(St(ocs), doc[idx])} : Unused(r) /\ Commit(r)

ProcessStyleAttr ==
    /\ pc = "style_attrs"
    /\ \E ocs \in OutcomeSeqs(doc[idx]) : 
         \E r \in {StyleAttr(St(ocs), doc[idx])} : Unused(r) /\ Commit(r)

ProcessIconLink ==
    /\ pc = "icons"
    /\ \E ocs \in OutcomeSeqs(doc[idx]) : 
         \E r \in {IconLink(St(ocs), doc[idx])} : Unused(r) /\ Commit(r)

ProcessMeta ==
    /\ pc = "meta"
    /\ \E ocs \in OutcomeSeqs(doc[idx]) : 
         \E r \in {MetaImage(St(ocs), doc[idx])} : Unused(r) /\ Commit(r)

ProcessBackground ==
    /\ pc = "backgrounds"
    /\ \E ocs \in OutcomeSeqs(doc[idx]) : 
         \E r \in {Background(St(ocs), doc[idx])} : Unused(r) /\ Commit(r)

FixNavLink ==
    /\ pc = "nav"
    /\ Commit([elem |-> NavLink(doc[idx]), st |-> St(<<>>)])

\* str(soup) is written to index.html and process() returns True
SaveHtml ==
    /\ pc = "save"
    /\ index_html' = doc
    /\ result' = TRUE
    /\ pc' = "done"
    /\ UNCHANGED <<idx, doc, orig, sheetText, network_resources, resource_cache, files,
                   fetches, calls, cssLookups, failures>>
    /\ UNCHANGED scrollVars
    /\ UNCHANGED extVars

Next ==
    \/ CaptureResponse
    \/ GotoDone
    \/ GetContent
    \/ ProcessStylesheet
    \/ ProcessStyleTag
    \/ ProcessScript
    \/ ProcessMedia
    \/ ProcessStyleAttr
    \/ ProcessIconLink
    \/ ProcessMeta
    \/ ProcessBackground
    \/ FixNavLink
    \/ SaveHtml

Spec == Init /\ [][Next]_vars

\* ------------------------------------------------- navigation anchors only
HrefChars == {"/", "a"}
ExternalHref == <<"h", "t", "t", "p", "s", ":", "/", "/", "b", ".", "t", "e", "s", "t", "/">>
HrefSet == SeqsUpTo(HrefChars, MaxHrefLen) \cup {ExternalHref}
AnchorDocs == SeqsUpTo({Elem("a", ("href" :> Text(h))) : h \in HrefSet}, MaxAnchors) \ {<<>>}

InitNav == (\E d \in AnchorDocs : InitJob(d, <<TextTok>>)) /\ InitScroll

NextNav ==
    \/ GotoDone
    \/ GetContent
    \/ FixNavLink
    \/ SaveHtml

SpecNav == InitNav /\ [][NextNav]_vars

\* ------------------------------------------------------------ scroll probe
Viewports == {0, 1, 2}

\* mutant: the iteration cap is missing
LoopCondition_nocap(cur, tot, it) == cur < tot

\* while current < total_height and iteration < max_iterations
LoopCondition(cur, tot, it) == cur < tot /\ it < max_iterations

\* the evaluations before the loop: total_height and viewport_height are read
ScrollBegin ==
    /\ spc = "idle"
    /\ \E h \in 0..MaxHeight, v \in Viewports :
         total_height' = h /\ viewport_height' = v
    /\ iteration' = 0 /\ current' = 0
    /\ spc' = "loop"
    /\ UNCHANGED <<scrolls, toTop>>
    /\ UNCHANGED jobVars
    /\ UNCHANGED extVars

\* one iteration of the loop: scroll to current, wait, re-measure
ScrollStep ==
    /\ spc = "loop"
    /\ LoopCondition(current, total_height, iteration)
    /\ scrolls' = scrolls + 1
    /\ current' = current + viewport_height
    /\ iteration' = iteration + 1
    /\ \E new_height \in 0..MaxHeight :
         total_height' = IF new_height > total_height THEN new_height ELSE total_height
    /\ UNCHANGED <<viewport_height, spc, toTop>>
    /\ UNCHANGED jobVars
    /\ UNCHANGED extVars

\* the loop is left: scroll back to top
ScrollToTop ==
    /\ spc = "loop"
    /\ ~LoopCondition(current, total_height, iteration)
    /\ toTop' = TRUE
    /\ spc' = "done"
    /\ UNCHANGED <<iteration, current, total_height, viewport_height, scrolls>>
    /\ UNCHANGED jobVars
    /\ UNCHANGED extVars

\* a page.evaluate raises: except Exception, the error is logged
ProbeFail ==
    /\ spc \in {"idle", "loop"}
    /\ spc' = "failed"
    /\ UNCHANGED <<iteration, current, total_height, viewport_height, scrolls, toTop>>
    /\ UNCHANGED jobVars
    /\ UNCHANGED extVars

InitScrollJob ==
    /\ pc = "settle" /\ idx = 1
    /\ doc = E2EDoc /\ orig = E2EDoc /\ sheetText = E2ESheet
    /\ network_resources = <<>> /\ resource_cache = <<>> /\ files = <<>>
    /\ fetches = <<>> /\ calls = {} /\ cssLookups = {} /\ failures = 0
    /\ index_html = Absent /\ result = None
    /\ InitScroll

NextScroll ==
    \/ ScrollBegin
    \/ ScrollStep
    \/ ScrollToTop
    \/ ProbeFail

SpecScroll == InitScrollJob /\ [][NextScroll]_vars

\* ------------------------------------------------- the resolver on its own
\* _get_resource applied to one reference at a time, in the state the capture
\* phase has left

BlobRef == [kind |-> "blob"]
FragRef == [kind |-> "frag"]
RefPool == {EmptyStr, DataRef, BlobRef, FragRef, RelY, RootY, AbsY, PixelUrl}

\* one call self._get_resource(ref)
Resolve ==
    /\ ~BrowserOpen(pc)
    /\ Cardinality(calls) < MaxCalls
    /\ \E ref \in RefPool, oc \in Outcomes :
         \E r \in {_get_resource(St(<<oc>>), ref, None)} :
            /\ Unused(r)
            /\ r.st.calls # calls          \* a call not made before
            /\ resource_cache' = r.st.cache
            /\ files' = r.st.files
            /\ fetches' = r.st.fetches
            /\ calls' = r.st.calls
            /\ cssLookups' = r.st.cssLookups
            /\ failures' = r.st.failures
    /\ UNCHANGED <<pc, idx, doc, orig, sheetText, network_resources, index_html, result>>
    /\ UNCHANGED scrollVars
    /\ UNCHANGED extVars

\* the page shows one of the images of the pool
InitResolve ==
    /\ \E d \in {<<e>> : e \in {x \in ElemPool : x.tag \in {"img", "meta"}}} :
         InitJob(d, <<TextTok>>)
    /\ InitScroll

NextResolve ==
    \/ CaptureResponse
    \/ GotoDone
    \/ GetContent
    \/ Resolve

SpecResolve == InitResolve /\ [][NextResolve]_vars

\* ------------------------------------------------------------ the job layer
\* process_download(session_id, url) of app.py, around WebsiteDownloader.process()
\* taken as the steps that decide its outcome: launch, navigation, hand-over of
\* the document, processing and save

\* the statements of process() and process_download() an exception can escape from:
\* the browser launch, page.content(), the processing of the document and the
\* write of index.html, zip_directory, shutil.rmtree
RaisePoints == {"launch", "content", "process", "zip", "rmtree"}

\* start_download: the job thread is started for a new session
StartDownload ==
    /\ jpc = "idle"
    /\ jpc' = "init"
    /\ job_status' = "processing"
    /\ UNCHANGED <<download_dir, zip_file, queue, nav, html_content>>
    /\ UNCHANGED jobVars
    /\ UNCHANGED scrollVars
    /\ UNCHANGED pureVars
    /\ in_queues' = TRUE /\ in_results' = TRUE
    /\ UNCHANGED <<stream_pc, last_event, dl_pc, served_status, aged>>

\* WebsiteDownloader(url, download_dir, ...): a stale directory is removed, then
\* download_dir/assets is created
Construct ==
    /\ jpc = "init"
    /\ download_dir' = TRUE
    /\ jpc' = "launch"
    /\ UNCHANGED <<zip_file, job_status, queue, nav, html_content>>
    /\ UNCHANGED jobVars
    /\ UNCHANGED scrollVars
    /\ UNCHANGED pureVars
    /\ UNCHANGED sessVars

\* chromium.launch, new_context, new_page, page.on("response", ...)
Launch ==
    /\ jpc = "launch"
    /\ queue' = Append(queue, "launching")
    /\ jpc' = "goto"
    /\ UNCHANGED <<download_dir, zip_file, job_status, nav, html_content>>
    /\ UNCHANGED jobVars
    /\ UNCHANGED scrollVars
    /\ UNCHANGED pureVars
    /\ UNCHANGED sessVars

\* page.goto: a timeout or navigation error is caught and logged as a warning
Goto ==
    /\ jpc = "goto"
    /\ \E outcome \in {"ok", "failed"} :
         /\ nav' = outcome
         /\ queue' = IF outcome = "failed" THEN queue \o <<"loading", "warning">>
                 ELSE Append(queue, "loading")
    /\ jpc' = "content"
    /\ UNCHANGED <<download_dir, zip_file, job_status, html_content>>
    /\ UNCHANGED jobVars
    /\ UNCHANGED scrollVars
    /\ UNCHANGED pureVars
    /\ UNCHANGED sessVars

\* html_content = page.content(): after a failed navigation the renderer holds
\* what had loaded so far, or nothing but the blank page
PageContent ==
    /\ jpc = "content"
    /\ html_content' \in (IF nav = "ok" THEN {"full"} ELSE {"partial", "blank"})
    /\ queue' = Append(queue, "captured")
    /\ jpc' = "process"
    /\ UNCHANGED <<download_dir, zip_file, job_status, nav>>
    /\ UNCHANGED jobVars
    /\ UNCHANGED scrollVars
    /\ UNCHANGED pureVars
    /\ UNCHANGED sessVars

\* the passes over the document, the write of index.html, return True
ProcessReturn ==
    /\ jpc = "process"
    /\ jpc' = "check"
    /\ queue' = Append(queue, "concluded")
    /\ index_html' = (IF html_content = "blank" THEN <<>> ELSE doc)
    /\ result' = TRUE
    /\ UNCHANGED <<pc, idx, doc, orig, sheetText, network_resources, resource_cache, files,
                   fetches, calls, cssLookups, failures>>
    /\ UNCHANGED <<download_dir, zip_file, job_status, nav, html_content>>
    /\ UNCHANGED scrollVars
    /\ UNCHANGED pureVars
    /\ UNCHANGED sessVars

\* an exception leaves process() or one of the calls of process_download()
Raise ==
    /\ jpc \in RaisePoints
    /\ jpc' = "except"
    \* an interrupted make_archive may have begun the archive
    /\ zip_file' \in (IF jpc = "zip" THEN BOOLEAN ELSE {zip_file})
    /\ UNCHANGED <<download_dir, job_status, queue, nav, html_content>>
    /\ UNCHANGED jobVars
    /\ UNCHANGED scrollVars
    /\ UNCHANGED pureVars
    /\ UNCHANGED sessVars

\* if not success: the failure is reported and the job returns
CheckSuccess ==
    /\ jpc = "check"
    /\ IF result = TRUE
       THEN /\ queue' = Append(queue, "zipping")
            /\ jpc' = "zip"
            /\ job_status' = job_status
       ELSE /\ queue' = Append(queue, "failed")
            /\ job_status' = "error"
            /\ jpc' = "end"
    /\ UNCHANGED <<download_dir, zip_file, nav, html_content>>
    /\ UNCHANGED jobVars
    /\ UNCHANGED scrollVars
    /\ UNCHANGED pureVars
    /\ in_results' = (in_results \/ result # TRUE)
    /\ UNCHANGED <<stream_pc, last_event, in_queues, dl_pc, served_status, aged>>

\* zip_directory(download_dir, zip_path)
ZipDirectory ==
    /\ jpc = "zip"
    /\ zip_file' = TRUE
    /\ jpc' = "rmtree"
    /\ UNCHANGED <<download_dir, job_status, queue, nav, html_content>>
    /\ UNCHANGED jobVars
    /\ UNCHANGED scrollVars
    /\ UNCHANGED pureVars
    /\ UNCHANGED sessVars

\* shutil.rmtree(download_dir): the raw files are removed
RemoveRaw ==
    /\ jpc = "rmtree"
    /\ download_dir' = FALSE
    /\ jpc' = "complete"
    /\ UNCHANGED <<zip_file, job_status, queue, nav, html_content>>
    /\ UNCHANGED jobVars
    /\ UNCHANGED scrollVars
    /\ UNCHANGED pureVars
    /\ UNCHANGED sessVars

\* q.put: the last message of a successful job
PutReady ==
    /\ jpc = "complete"
    /\ queue' = Append(queue, "ready")
    /\ jpc' = "record_complete"
    /\ UNCHANGED <<download_dir, zip_file, job_status, nav, html_content>>
    /\ UNCHANGED jobVars
    /\ UNCHANGED scrollVars
    /\ UNCHANGED pureVars
    /\ UNCHANGED sessVars

\* the result of the session is recorded as complete
Complete ==
    /\ jpc = "record_complete"
    /\ job_status' = "complete"
    /\ queue' = queue
    /\ jpc' = "end"
    /\ UNCHANGED <<download_dir, zip_file, nav, html_content>>
    /\ UNCHANGED jobVars
    /\ UNCHANGED scrollVars
    /\ UNCHANGED pureVars
    /\ in_results' = TRUE
    /\ UNCHANGED <<stream_pc, last_event, in_queues, dl_pc, served_status, aged>>

\* except Exception as e: q.put, the error message
PutError ==
    /\ jpc = "except"
    /\ queue' = Append(queue, "error")
    /\ jpc' = "record_error"
    /\ UNCHANGED <<download_dir, zip_file, job_status, nav, html_content>>
    /\ UNCHANGED jobVars
    /\ UNCHANGED scrollVars
    /\ UNCHANGED pureVars
    /\ UNCHANGED sessVars

\* the error is recorded as the result of the session
RecordError ==
    /\ jpc = "record_error"
    /\ job_status' = "error"
    /\ queue' = queue
    /\ jpc' = "cleanup"
    /\ UNCHANGED <<download_dir, zip_file, nav, html_content>>
    /\ UNCHANGED jobVars
    /\ UNCHANGED scrollVars
    /\ UNCHANGED pureVars
    /\ in_results' = TRUE
    /\ UNCHANGED <<stream_pc, last_event, in_queues, dl_pc, served_status, aged>>

\* clean up any leftover files
Cleanup ==
    /\ jpc = "cleanup"
    /\ download_dir' = FALSE
    /\ zip_file' = FALSE
    /\ jpc' = "end"
    /\ UNCHANGED <<job_status, queue, nav, html_content>>
    /\ UNCHANGED jobVars
    /\ UNCHANGED scrollVars
    /\ UNCHANGED pureVars
    /\ UNCHANGED sessVars

\* a session starts with nothing of its own on disk, or with a directory of its
\* name left over; the page holds one anchor
InitAppJob ==
    /\ \E d \in {a \in AnchorDocs : Len(a) = 1} : InitJob(d, <<TextTok>>)
    /\ iteration = 0 /\ current = 0 /\ total_height = 0 /\ viewport_height = 0
    /\ spc = "idle" /\ scrolls = 0 /\ toTop = FALSE
    /\ jpc = "idle" /\ download_dir \in BOOLEAN /\ zip_file = FALSE
    /\ job_status = "processing" /\ queue = <<>> /\ nav = "pending" /\ html_content = "none"
    /\ InitPure /\ InitSess

NextApp ==
    \/ StartDownload
    \/ Construct
    \/ Launch
    \/ Goto
    \/ PageContent
    \/ ProcessReturn
    \/ Raise
    \/ CheckSuccess
    \/ ZipDirectory
    \/ RemoveRaw
    \/ PutReady
    \/ Complete
    \/ PutError
    \/ RecordError
    \/ Cleanup

SpecApp == InitAppJob /\ [][NextApp]_vars

\* ------------------------------------------------------------ the session
Final == {"complete", "error"}
AppUnchanged ==
    /\ UNCHANGED jobVars
    /\ UNCHANGED scrollVars
    /\ UNCHANGED pureVars

\* GET /stream/<session_id>: the generator starts; an unknown session ends it
StreamConnect ==
    /\ stream_pc = "off" /\ jpc # "idle"
    /\ IF in_queues THEN stream_pc' = "get" /\ last_event' = last_event
       ELSE stream_pc' = "closed" /\ last_event' = "notfound"
    /\ UNCHANGED <<in_queues, in_results, dl_pc, served_status, aged>>
    /\ UNCHANGED appVars
    /\ AppUnchanged

\* message = q.get(timeout=60) returns a message, which is sent to the client
StreamGet ==
    /\ stream_pc = "get" /\ queue # <<>>
    /\ queue' = Tail(queue)
    /\ last_event' = "message"
    /\ stream_pc' = "check"
    /\ UNCHANGED <<jpc, download_dir, zip_file, job_status, nav, html_content>>
    /\ UNCHANGED <<in_queues, in_results, dl_pc, served_status, aged>>
    /\ AppUnchanged

\* except queue.Empty: a keepalive is sent and the loop goes on
StreamKeepalive ==
    /\ stream_pc = "get" /\ queue = <<>>
    /\ last_event' = "keepalive"
    /\ UNCHANGED <<stream_pc, in_queues, in_results, dl_pc, served_status, aged>>
    /\ UNCHANGED appVars
    /\ AppUnchanged

\* result = download_results.get(session_id, {}); a final status ends the stream
StreamCheck ==
    /\ stream_pc = "check"
    /\ IF in_results /\ job_status \in Final
       THEN stream_pc' = "closed" /\ last_event' = "done"
       ELSE stream_pc' = "get" /\ last_event' = last_event
    /\ UNCHANGED <<in_queues, in_results, dl_pc, served_status, aged>>
    /\ UNCHANGED appVars
    /\ AppUnchanged

\* download_file answers with the zip: the session is known, complete, and the
\* file is there
Servable(present, status, zip_exists) == present /\ status = "complete" /\ zip_exists

\* GET /download-file/<session_id>: send_file, and unless it raised, a cleanup
\* thread is started
DownloadFile ==
    /\ Servable(in_results, job_status, zip_file)
    /\ \E sent \in BOOLEAN :
         IF sent THEN served_status' = job_status /\ dl_pc' = "cleanup"
         ELSE served_status' = served_status /\ dl_pc' = dl_pc
    /\ UNCHANGED <<stream_pc, last_event, in_queues, in_results, aged>>
    /\ UNCHANGED appVars
    /\ AppUnchanged

\* cleanup(): the zip and the session are removed a second after the download
DownloadCleanup ==
    /\ dl_pc = "cleanup"
    /\ zip_file' = FALSE
    /\ in_queues' = FALSE /\ in_results' = FALSE
    /\ dl_pc' = "idle"
    /\ UNCHANGED <<jpc, download_dir, job_status, queue, nav, html_content>>
    /\ UNCHANGED <<stream_pc, last_event, served_status, aged>>
    /\ AppUnchanged

\* time.time() - created_at exceeds 1800 seconds
TimePasses ==
    /\ in_results /\ job_status = "complete" /\ ~aged
    /\ aged' = TRUE
    /\ UNCHANGED <<stream_pc, last_event, in_queues, in_results, dl_pc, served_status>>
    /\ UNCHANGED appVars
    /\ AppUnchanged

\* one round of cleanup_abandoned_sessions that finds the session abandoned
Sweep ==
    /\ in_results /\ job_status = "complete" /\ aged
    /\ zip_file' = FALSE
    /\ in_queues' = FALSE /\ in_results' = FALSE
    /\ UNCHANGED <<jpc, download_dir, job_status, queue, nav, html_content>>
    /\ UNCHANGED <<stream_pc, last_event, dl_pc, served_status, aged>>
    /\ AppUnchanged

\* TLC compares the successive values of a variable when it checks a temporal
\* formula: the index.html not yet written and the value not yet returned are
\* given values of the kind they have later
InitSession ==
    /\ pc = "render" /\ idx = 1
    /\ doc = E2EDoc /\ orig = E2EDoc /\ sheetText = E2ESheet
    /\ network_resources = <<>> /\ resource_cache = <<>> /\ files = <<>>
    /\ fetches = <<>> /\ calls = {} /\ cssLookups = {} /\ failures = 0
    /\ index_html = <<>> /\ result = FALSE
    /\ InitScroll

\* the steps of the job thread, of the stream generator and of the other threads
Worker == NextApp
StreamLoop == StreamGet \/ StreamKeepalive \/ StreamCheck

NextSession ==
    \/ Worker
    \/ StreamConnect
    \/ StreamLoop
    \/ DownloadFile
    \/ DownloadCleanup
    \/ TimePasses
    \/ Sweep

SpecSession == InitSession /\ [][NextSession]_vars

\* every thread that can take a step eventually takes one; connecting to the
\* stream and downloading the file are up to the client
SpecSessionLive ==
    /\ SpecSession
    /\ WF_jpc(Worker) /\ WF_sessVars(StreamLoop)
    /\ WF_sessVars(DownloadCleanup) /\ WF_sessVars(TimePasses) /\ WF_sessVars(Sweep)

\* ----------------------------------------------- the stylesheet pass on its own
\* pages whose stylesheets refer to one another: css/m.css and css/x.css, both
\* served as the sheet text, which may import x.css
SegMCss == <<"m", ".", "c", "s", "s">>
MainRef == Rel(<<SegCss, SegMCss>>)         \* css/m.css
ImportSheet == <<UrlTok("", Rel(<<SegXCss>>)), TextTok, UrlTok("", RelY)>>

SheetLinks == {Elem("link", ("rel" :> Word("stylesheet")) @@ ("href" :> ref)) :
                 ref \in {MainRef, SheetRef}}
SheetDocs == SeqsUpTo(SheetLinks, MaxSheets) \ {<<>>}

InitSheets ==
    /\ \E d \in SheetDocs, sheet \in SheetTexts \cup {ImportSheet} : InitJob(d, sheet)
    /\ InitScroll

NextSheets ==
    \/ CaptureResponse
    \/ GotoDone
    \/ GetContent
    \/ ProcessStylesheet
    \/ ProcessIconLink
    \/ SaveHtml

SpecSheets == InitSheets /\ [][NextSheets]_vars

\* ------------------------------------------------------- SPA de-hydration
\* attribute values and script texts as the strings the code tests them as
\* '/'.join(segs)
RECURSIVE PathChars(_)
PathChars(segs) ==
    IF Len(segs) = 1 THEN segs[1]
    ELSE segs[1] \o <<"/">> \o PathChars(Tail(segs))

HostChars(host) ==
    CASE host = "a.test" -> <<"a", ".", "t", "e", "s", "t">>
      [] host = "static.HotJar.com" -> <<"s", "t", "a", "t", "i", "c", ".", "H", "o", "t", "J", "a", "r", ".", "c", "o", "m">>
      [] host = "www.googletagmanager.com" -> <<"w", "w", "w", ".", "g", "o", "o", "g", "l", "e", "t", "a", "g", "m", "a", "n", "a", "g", "e", "r", ".", "c", "o", "m">>

HotjarJs == AbsUrl("static.HotJar.com", << <<"c", ".", "j", "s">> >>)
GtmJs == AbsUrl("www.googletagmanager.com", << <<"g", "t", "m", ".", "j", "s">> >>)
NextChunk == Root(<< <<"_", "n", "e", "x", "t">>, <<"m", "a", "i", "n", "-", "1", ".", "j", "s">> >>)
PlainJs == Rel(<<SegAJs>>)

\* hashlib.md5(url.encode()).hexdigest()[:12] of the script URLs of the pages below
HexDigest(url) ==
    CASE url = HotjarJs -> <<"f", "2", "3", "5", "3", "6", "c", "a", "6", "6", "d", "f">>
      [] url = GtmJs -> <<"7", "a", "4", "0", "0", "1", "2", "a", "5", "5", "d", "6">>
      [] url = urljoin(base_url, NextChunk) -> <<"8", "7", "8", "0", "9", "c", "1", "c", "8", "4", "f", "0">>
      [] url = urljoin(base_url, PlainJs) -> <<"d", "2", "7", "8", "9", "c", "6", "b", "4", "3", "2", "1">>

\* the string an attribute value is in the document
Render(v) ==
    CASE v.kind = "abs"   -> <<"h", "t", "t", "p", "s", ":", "/", "/">> \o HostChars(v.host) \o <<"/">> \o PathChars(v.segs)
      [] v.kind = "root"  -> <<"/">> \o PathChars(v.segs)
      [] v.kind = "rel"   -> PathChars(v.segs)
      [] v.kind = "local" -> <<"a", "s", "s", "e", "t", "s", "/">> \o v.name.base \o <<"_">>
                               \o HexDigest(v.name.hash.md5) \o v.name.ext
      [] v.kind = "text"  -> v.chars
      [] OTHER            -> <<>>

\* pat in s
Contains(s, pat) ==
    \E i \in 0..(Len(s) - Len(pat)) : SubSeq(s, i + 1, i + Len(pat)) = pat
StartsWith(s, pat) == Len(s) >= Len(pat) /\ SubSeq(s, 1, Len(pat)) = pat
EndsWith(s, pat) == Len(s) >= Len(pat) /\ SubSeq(s, Len(s) - Len(pat) + 1, Len(s)) = pat

\* s.lower()
LowerChar(c) == CASE c = "H" -> "h" [] c = "J" -> "j" [] OTHER -> c
lower(s) == [i \in 1..Len(s) |-> LowerChar(s[i])]

safe_keywords ==
    {<<"g", "o", "o", "g", "l", "e">>,
     <<"a", "n", "a", "l", "y", "t", "i", "c", "s">>,
     <<"g", "t", "m">>,
     <<"g", "t", "a", "g">>,
     <<"f", "a", "c", "e", "b", "o", "o", "k">>,
     <<"p", "i", "x", "e", "l">>,
     <<"e", "l", "f", "s", "i", "g", "h", "t">>,
     <<"h", "u", "b", "s", "p", "o", "t">>,
     <<"i", "n", "t", "e", "r", "c", "o", "m">>,
     <<"c", "r", "i", "s", "p">>,
     <<"d", "r", "i", "f", "t">>,
     <<"h", "o", "t", "j", "a", "r">>,
     <<"c", "l", "a", "r", "i", "t", "y">>,
     <<"s", "e", "g", "m", "e", "n", "t">>,
     <<"m", "i", "x", "p", "a", "n", "e", "l">>,
     <<"a", "m", "p", "l", "i", "t", "u", "d", "e">>,
     <<"a", "d", "o", "b", "e">>,
     <<"p", "r", "i", "v", "a", "c", "y">>}

HasId(d, id) == \E i \in 1..Len(d) : Get(d[i], "id") = Word(id)

\* script.get('src', '') and script.string or ''
SrcOf(e) == Render(Get(e, "src"))
TextOf(e) == Render(Get(e, "#text"))

_detect_nextjs(d) ==
    \/ \E i \in 1..Len(d) :
         /\ d[i].tag = "script"
         /\ \/ Get(d[i], "id") = Word("__NEXT_DATA__")
            \/ Contains(TextOf(d[i]), <<"_", "_", "N", "E", "X", "T", "_", "D", "A", "T", "A", "_", "_">>)
            \/ Contains(TextOf(d[i]), <<"s", "e", "l", "f", ".", "_", "_", "n", "e", "x", "t">>)
    \/ \E i \in 1..Len(d) :
         /\ d[i].tag = "script" /\ "src" \in DOMAIN d[i].attrs
         /\ \/ Contains(SrcOf(d[i]), <<"_", "n", "e", "x", "t", "/">>)
            \/ Contains(lower(SrcOf(d[i])), <<"w", "e", "b", "p", "a", "c", "k">>)
    \/ \E i \in 1..Len(d) :
         d[i].tag = "link" /\ Contains(Render(Get(d[i], "href")), <<"_", "n", "e", "x", "t", "/">>)

is_gatsby(d) == HasId(d, "___gatsby")
is_nextjs(d) == HasId(d, "__next") \/ _detect_nextjs(d)
is_nuxt(d) == HasId(d, "__nuxt")
Detected(d) == is_gatsby(d) \/ is_nextjs(d) \/ is_nuxt(d)

\* any(safe in src.lower() for safe in safe_keywords)
is_safe(src) == \E k \in safe_keywords : Contains(lower(src), k)

GatsbyPattern(src) ==
    \E pat \in {<<"f", "r", "a", "m", "e", "w", "o", "r", "k", "-">>, <<"a", "p", "p", "-">>, <<"c", "o", "m", "m", "o", "n", "s", "-">>, <<"c", "o", "m", "p", "o", "n", "e", "n", "t", "-">>, <<"w", "e", "b", "p", "a", "c", "k", "-", "r", "u", "n", "t", "i", "m", "e">>, <<"p", "o", "l", "y", "f", "i", "l", "l">>} :
       Contains(src, pat)
NextPattern(src, text) ==
    \/ src # <<>> /\ ~StartsWith(src, <<"h", "t", "t", "p", ":", "/", "/">>) /\ ~StartsWith(src, <<"h", "t", "t", "p", "s", ":", "/", "/">>)
                 /\ ~StartsWith(src, <<"/", "/">>)
    \/ Contains(src, <<"_", "n", "e", "x", "t", "/">>) \/ Contains(src, <<"w", "e", "b", "p", "a", "c", "k">>)
    \/ Contains(src, <<"p", "o", "l", "y", "f", "i", "l", "l">>)
    \/ Contains(text, <<"_", "_", "n", "e", "x", "t">>)
    \/ /\ Contains(src, <<"-">>) /\ EndsWith(src, <<".", "j", "s">>)
       /\ Contains(src, <<"a", "s", "s", "e", "t", "s", "/">>)
NuxtPattern(src, text) ==
    \/ Contains(src, <<"_", "n", "u", "x", "t", "/">>) \/ Contains(text, <<"_", "_", "N", "U", "X", "T", "_", "_">>)
    \/ Contains(lower(src), <<"n", "u", "x", "t">>)
HydrationText(text) ==
    \/ Contains(lower(text), <<"h", "y", "d", "r", "a", "t", "e">>) \/ Contains(text, <<"w", "i", "n", "d", "o", "w", ".", "_", "_">>)
    \/ Contains(text, <<"G", "A", "T", "S", "B", "Y">>) \/ Contains(text, <<"p", "a", "g", "e", "D", "a", "t", "a">>)
    \/ Contains(text, <<"s", "e", "l", "f", ".", "_", "_", "n", "e", "x", "t">>) \/ Contains(text, <<"_", "_", "N", "E", "X", "T", "_", "D", "A", "T", "A", "_", "_">>)

\* should_remove of one script, for the frameworks that were detected
should_remove(src, text, gatsby, nextjs, nuxt) ==
    /\ ~is_safe(src)
    /\ \/ gatsby /\ GatsbyPattern(src)
       \/ nextjs /\ NextPattern(src, text)
       \/ nuxt /\ NuxtPattern(src, text)
       \/ HydrationText(text)

PreloadRels == {"preload", "prefetch", "modulepreload"}
\* a preload link that points at framework resources
FrameworkLink(e) ==
    /\ e.tag = "link" /\ Truthy(Get(e, "rel")) /\ Get(e, "rel").w \in PreloadRels
    /\ \/ Contains(Render(Get(e, "href")), <<"_", "n", "e", "x", "t", "/">>)
       \/ /\ StartsWith(Render(Get(e, "href")), <<"a", "s", "s", "e", "t", "s", "/">>)
          /\ Contains(Render(Get(e, "href")), <<"-">>)

\* 10. the document after the scripts and links of the framework are decomposed
Dehydrate(d, gatsby, nextjs, nuxt) ==
    IF ~(gatsby \/ nextjs \/ nuxt) THEN d
    ELSE SelectSeq(d, LAMBDA e :
           /\ ~(e.tag = "script" /\ should_remove(SrcOf(e), TextOf(e), gatsby, nextjs, nuxt))
           /\ ~FrameworkLink(e))

\* de-hydration, then str(soup) is written to index.html and process() returns True
SaveDehydrated ==
    /\ pc = "save"
    /\ doc' = Dehydrate(doc, is_gatsby(doc), is_nextjs(doc), is_nuxt(doc))
    /\ index_html' = doc'
    /\ result' = TRUE
    /\ pc' = "done"
    /\ UNCHANGED <<idx, orig, sheetText, network_resources, resource_cache, files,
                   fetches, calls, cssLookups, failures>>
    /\ UNCHANGED scrollVars
    /\ UNCHANGED extVars

\* the elements of the pages: a framework root, third-party and framework
\* scripts, an inline hydration script and a preload link
HydrElems == {
    Elem("div", ("id" :> Word("__next"))),
    Elem("div", ("id" :> Word("___gatsby"))),
    Elem("div", ("id" :> Word("__nuxt"))),
    Elem("script", ("src" :> HotjarJs)),
    Elem("script", ("src" :> GtmJs)),
    Elem("script", ("src" :> NextChunk)),
    Elem("script", ("src" :> PlainJs)),
    Elem("script", ("#text" :> Text(<<"s", "e", "l", "f", ".", "_", "_", "n", "e", "x", "t", "_", "f", "=", "[", "]">>))),
    Elem("link", ("rel" :> Word("preload")) @@ ("href" :> NextChunk)) }

\* every element carries its position in the page as found
Keyed(d) == [i \in 1..Len(d) |-> Set(d[i], "data-k", [kind |-> "key", k |-> i])]
HydrDocs == {Keyed(d) : d \in SeqsUpTo(HydrElems, MaxScripts) \ {<<>>}}

InitHydr ==
    /\ \E d \in HydrDocs : InitJob(d, <<TextTok>>)
    /\ InitScroll

NextHydr ==
    \/ CaptureResponse
    \/ GotoDone
    \/ GetContent
    \/ ProcessScript
    \/ ProcessIconLink
    \/ SaveDehydrated

SpecHydr == InitHydr /\ [][NextHydr]_vars

\* --------------------------------------------------------- Frame Resolution
\* The page as _extract_iframe_content queries it: the length of the top
\* document, the number of direct children of its body, and page.frames without
\* the main frame, in order. A frame has
\*   top      TRUE iff its iframe element is in the top document (the selectors
\*            of the function only see those), FALSE for a frame nested deeper
\*   kind     "srcdoc" (URL about:srcdoc; a top element then carries a srcdoc
\*            attribute), "blank" (about:blank) or "remote" (a URL of its own)
\*   preview  the element matches one of the preview_selectors
\*   size     len(frame.content())
Sizes == {200, 300, 600, 1200}
MainSize == 1000
FrameRecs ==
    [top : {TRUE}, kind : {"srcdoc", "blank", "remote"}, preview : BOOLEAN, size : Sizes]
      \cup [top : {FALSE}, kind : {"srcdoc", "blank", "remote"}, preview : {FALSE}, size : Sizes]
\* the first frame of a page belongs to an element of the top document
FrameSeqs == {f \in SeqsUpTo(FrameRecs, MaxFrames) : f = <<>> \/ f[1].top}
Pages == [main_size : {MainSize}, children : {5, 6}, frames : FrameSeqs]

FirstOf(S) == CHOOSE i \in S : \A j \in S : i <= j
FrameUrl(i) == [kind |-> "frame_url", frame |-> i]
SrcdocAttr(i) == [from |-> "srcdoc", frame |-> i]
FrameContent(i) == [from |-> "content", frame |-> i]

\* _extract_iframe_content(page) together with its effect on self.base_url;
\* via names the return statement that was taken
_extract_iframe_content(pg, outer) ==
    LET n == Len(pg.frames)
        \* page.query_selector('iframe[srcdoc]') with a non-empty attribute
        A == {i \in 1..n : pg.frames[i].top /\ pg.frames[i].kind = "srcdoc"}
        \* an element matches a preview selector
        P == {i \in 1..n : pg.frames[i].preview}
        \* for frame in page.frames: not main, URL not about:blank, len > 500
        B == {i \in 1..n : pg.frames[i].kind # "blank" /\ pg.frames[i].size > 500}
        \* frame.url == 'about:srcdoc' and len(content) > 1000
        C == {i \in 1..n : pg.frames[i].kind = "srcdoc" /\ pg.frames[i].size > 1000}
        \* len(direct_children) <= 5 and len(iframes) > 0
        thin == pg.children <= 5 /\ \E i \in 1..n : pg.frames[i].top
        \* len(content) > len(main_content) * 0.3
        D == {i \in 1..n : 10 * pg.frames[i].size > 3 * pg.main_size}
    IN  IF A # {}
        THEN [content |-> SrcdocAttr(FirstOf(A)), is_iframe |-> TRUE, base |-> outer, via |-> "a"]
        ELSE IF P # {} /\ B # {}
        THEN [content |-> FrameContent(FirstOf(B)), is_iframe |-> TRUE,
              base |-> FrameUrl(FirstOf(B)), via |-> "b"]
        ELSE IF C # {}
        THEN [content |-> FrameContent(FirstOf(C)), is_iframe |-> TRUE, base |-> outer, via |-> "c"]
        ELSE IF thin /\ D # {}
        THEN [content |-> FrameContent(FirstOf(D)), is_iframe |-> TRUE,
              base |-> IF pg.frames[FirstOf(D)].kind = "remote"
                       THEN FrameUrl(FirstOf(D)) ELSE outer,
              via |-> "d"]
        ELSE [content |-> None, is_iframe |-> FALSE, base |-> outer, via |-> "none"]

\* iframe_content, is_iframe = self._extract_iframe_content(page)
ExtractIframe ==
    /\ frame_result = None
    /\ frame_result' = _extract_iframe_content(page, base_url)
    /\ UNCHANGED page
    /\ UNCHANGED jobVars
    /\ UNCHANGED scrollVars
    /\ UNCHANGED appVars
    /\ UNCHANGED sessVars
    /\ UNCHANGED <<fixVars, nameVars>>

InitFrames ==
    /\ InitJob(E2EDoc, E2ESheet)
    /\ iteration = 0 /\ current = 0 /\ total_height = 0 /\ viewport_height = 0
    /\ spc = "idle" /\ scrolls = 0 /\ toTop = FALSE
    /\ InitApp /\ InitSess
    /\ page \in Pages /\ frame_result = None
    /\ InitFixVars /\ InitNameVars

NextFrames == ExtractIframe

SpecFrames == InitFrames /\ [][NextFrames]_vars

\* ----------------------------------------- frame check, scroll and capture
\* iframe_content, is_iframe = self._extract_iframe_content(page), after the
\* settle delay
FrameCheck ==
    /\ pc = "settle" /\ frame_result = None
    /\ frame_result' = _extract_iframe_content(page, base_url)
    /\ UNCHANGED page
    /\ UNCHANGED jobVars
    /\ UNCHANGED scrollVars
    /\ UNCHANGED appVars
    /\ UNCHANGED sessVars
    /\ UNCHANGED <<fixVars, nameVars>>

\* if not is_iframe: self._scroll_page(page)
ProbeWanted == frame_result # None /\ ~frame_result.is_iframe /\ html_content = "none"
ProbeBegin == ProbeWanted /\ ScrollBegin
ProbeStep == ProbeWanted /\ ScrollStep
ProbeToTop == ProbeWanted /\ ScrollToTop
ProbeRaises == ProbeWanted /\ ProbeFail

\* html_content = iframe_content if is_iframe and iframe_content else page.content()
GetHtml ==
    /\ pc = "settle" /\ frame_result # None /\ html_content = "none"
    /\ frame_result.is_iframe \/ spc \in {"done", "failed"}
    /\ html_content' = IF frame_result.is_iframe THEN "frame" ELSE "page"
    /\ UNCHANGED <<jpc, download_dir, zip_file, job_status, queue, nav>>
    /\ UNCHANGED jobVars
    /\ UNCHANGED scrollVars
    /\ UNCHANGED pureVars
    /\ UNCHANGED sessVars

\* the rendered pages with at most one frame
CapturePages == {pg \in Pages : Len(pg.frames) <= 1}

InitCapture ==
    /\ pc = "settle" /\ idx = 1
    /\ doc = E2EDoc /\ orig = E2EDoc /\ sheetText = E2ESheet
    /\ network_resources = <<>> /\ resource_cache = <<>> /\ files = <<>>
    /\ fetches = <<>> /\ calls = {} /\ cssLookups = {} /\ failures = 0
    /\ index_html = Absent /\ result = None
    /\ iteration = 0 /\ current = 0 /\ total_height = 0 /\ viewport_height = 0
    /\ spc = "idle" /\ scrolls = 0 /\ toTop = FALSE
    /\ InitApp /\ InitSess
    /\ page \in CapturePages /\ frame_result = None
    /\ InitFixVars /\ InitNameVars

NextCapture ==
    \/ FrameCheck
    \/ ProbeBegin
    \/ ProbeStep
    \/ ProbeToTop
    \/ ProbeRaises
    \/ GetHtml

SpecCapture == InitCapture /\ [][NextCapture]_vars

\* --------------------------------------------------- Presentation Normalizer
\* The document as _fix_scroll_blocking sees it:
\*   html, body  the class lists of the two elements
\*   elems       other elements: class list, set of attribute names, whether a
\*               style attribute is there, and its declarations
\*   has_head    whether the document has a <head>
\*   head        the children of <head>
\*   scripts     the script elements, by what their src or text contains

\* c.lower()
Lower(c) == IF c = "Lenis" THEN "lenis" ELSE c

lenis_classes == {"lenis", "lenis-smooth", "lenis-scrolling", "lenis-stopped",
                  "has-scroll-smooth", "has-scroll-init", "locomotive-scroll"}
blocking_classes == {"overflow-hidden", "no-scroll", "scroll-lock", "fixed",
                     "lenis", "lenis-smooth", "has-scroll-smooth"}

\* [c for c in classes if c.lower() not in names]
Without(classes, names) == SelectSeq(classes, LAMBDA c : Lower(c) \notin names)

InSeq(x, sq) == \E i \in 1..Len(sq) : sq[i] = x

\* 1. the html element
FixHtml(sp) == [sp EXCEPT !.html = Without(@, lenis_classes)]

\* 2. the body element
FixBody(sp) ==
    LET new_classes == Without(sp.body, blocking_classes)
    IN  [sp EXCEPT !.body =
           IF InSeq("items-center", new_classes) /\ InSeq("flex", new_classes)
           THEN [i \in 1..Len(new_classes) |->
                   IF new_classes[i] = "items-center" THEN "items-start" ELSE new_classes[i]]
           ELSE new_classes]

\* a class name contains scroll-container, smooth-scroll, lenis or locomotive
ScrollClass(c) == Lower(c) \in {"scroll-container", "smooth-scroll", "lenis", "lenis-wrapper"}
\* 'scroll' in attr.lower() or 'lenis' in attr.lower()
ScrollAttr(a) == a \in {"data-scroll", "data-scroll-container", "data-lenis-prevent"}

\* 3. data attributes of the smooth-scroll containers
FixContainers(sp) ==
    [sp EXCEPT !.elems =
       [i \in 1..Len(@) |->
          IF \E k \in 1..Len(@[i].class) : ScrollClass(@[i].class[k])
          THEN [@[i] EXCEPT !.attrs = {a \in @ : ~ScrollAttr(a)}]
          ELSE @[i]]]

\* 'overflow' in style.lower(), 'hidden' in style.lower(), per declaration
HasOverflow(d) == d \in {"overflow:hidden", "overflow-x:hidden", "overflow:auto"}
HasHidden(d) == d \in {"overflow:hidden", "overflow-x:hidden", "visibility:hidden"}
\* the declarations re.sub(r'overflow\s*:\s*hidden\s*;?', '', ...) removes
OverflowHidden(d) == d = "overflow:hidden"

\* 4. inline styles
FixStyles(sp) ==
    [sp EXCEPT !.elems =
       [i \in 1..Len(@) |->
          IF @[i].has_style
             /\ (\E k \in 1..Len(@[i].style) : HasOverflow(@[i].style[k]))
             /\ (\E k \in 1..Len(@[i].style) : HasHidden(@[i].style[k]))
          THEN [@[i] EXCEPT !.style = SelectSeq(@, LAMBDA d : ~OverflowHidden(d))]
          ELSE @[i]]]

\* 5. head.append(fix_style)
InjectCss(sp) ==
    IF ~sp.has_head THEN sp
    ELSE [sp EXCEPT !.head = Append(@, "style[data-scroll-fix]")]

\* 6. smooth-scroll scripts are decomposed
FixScripts(sp) == [sp EXCEPT !.scripts = SelectSeq(@, LAMBDA sc : sc # "smooth")]

_fix_scroll_blocking(sp) ==
    FixScripts(InjectCss(FixStyles(FixContainers(FixBody(FixHtml(sp))))))

HtmlClasses == {<<>>, <<"Lenis">>, <<"dark", "lenis-smooth">>}
BodyClasses == SeqsUpTo({"flex", "items-center", "no-scroll", "p-4"}, MaxClasses)
StyleValues == {<<"overflow:hidden", "color:red">>, <<"overflow-x:hidden">>,
                <<"overflow:auto", "visibility:hidden">>}
OtherElems ==
    {e \in [class : {<<>>, <<"smooth-scroll">>}, attrs : {{}, {"data-scroll", "id"}},
            has_style : BOOLEAN, style : StyleValues \cup {<<>>}] :
       e.has_style <=> e.style # <<>>}
Soups ==
    {sp \in [html : HtmlClasses, body : BodyClasses, elems : SeqsUpTo(OtherElems, 1),
             has_head : BOOLEAN, head : {<<>>, <<"title">>},
             scripts : {<<>>, <<"smooth", "other">>}] :
       ~sp.has_head => sp.head = <<>>}

\* self._fix_scroll_blocking(soup), applied to the document it has produced
FixScrollBlocking ==
    /\ Len(fixes) < 2
    /\ soup' = _fix_scroll_blocking(soup)
    /\ fixes' = Append(fixes, soup')
    /\ UNCHANGED jobVars
    /\ UNCHANGED scrollVars
    /\ UNCHANGED appVars
    /\ UNCHANGED sessVars
    /\ UNCHANGED <<frameVars, nameVars>>

InitFix ==
    /\ InitJob(E2EDoc, E2ESheet)
    /\ iteration = 0 /\ current = 0 /\ total_height = 0 /\ viewport_height = 0
    /\ spc = "idle" /\ scrolls = 0 /\ toTop = FALSE
    /\ InitApp /\ InitSess
    /\ InitFrameVars /\ InitNameVars
    /\ soup \in Soups /\ fixes = <<>>

NextFix == FixScrollBlocking

SpecFix == InitFix /\ [][NextFix]_vars

\* ------------------------------------------------ file names on their own
\* last path segments: every string over a letter, the dot and an unsafe
\* character up to MaxSegLen, a name longer than the [:30] cut and a suffix
\* longer than _get_extension accepts; "." and ".." do not survive urljoin
LongSeg == [i \in 1..(MaxNameLen + 2) |-> "a"] \o <<".", "p", "n", "g">>
LongExtSeg == <<"a", ".", "b", "c", "d", "e", "f", "g", "h">>
NameSegs == (SeqsUpTo({"a", ".", "~"}, MaxSegLen) \ {<<".">>, <<".", ".">>})
              \cup {LongSeg, LongExtSeg}
NameUrls == [url : {AbsUrl("a.test", <<SegImg, seg>>) : seg \in NameSegs},
             content_type : {"", "text/css", "application/x-unknown"}]

\* self._generate_filename(url, content_type)
GenerateFilename ==
    /\ filename = None
    /\ filename' = _generate_filename(name_url.url, name_url.content_type)
    /\ UNCHANGED name_url
    /\ UNCHANGED jobVars
    /\ UNCHANGED scrollVars
    /\ UNCHANGED appVars
    /\ UNCHANGED sessVars
    /\ UNCHANGED <<frameVars, fixVars>>

InitName ==
    /\ InitJob(E2EDoc, E2ESheet)
    /\ iteration = 0 /\ current = 0 /\ total_height = 0 /\ viewport_height = 0
    /\ spc = "idle" /\ scrolls = 0 /\ toTop = FALSE
    /\ InitApp /\ InitSess
    /\ InitFrameVars /\ InitFixVars
    /\ name_url \in NameUrls /\ filename = None

NextName == GenerateFilename

SpecName == InitName /\ [][NextName]_vars

TypeOK == pc \in {"render", "settle", "save", "done", "aborted"} \cup {Passes[p] : p \in 1..Len(Passes)}

\* ------------------------------------------------------------------ claims
SheetUrl == urljoin(base_url, SheetRef)
IsLocal(v) == v.kind = "local"
\* the path, taken relative to index.html, names a file of the asset directory
FileExists(v) == v.dir = "assets" /\ v.name \in DOMAIN files

\* C1: within one job every URL is fetched by the fallback client at most once,
\* and all resolutions of one URL that yield a local path yield the same one.
C1_AtMostOneFetch ==
    /\ \A u \in DOMAIN fetches : fetches[u] <= 1
    /\ \A c1, c2 \in calls :
         (c1.abs = c2.abs /\ IsLocal(c1.ret) /\ IsLocal(c2.ret)) => c1.ret = c2.ret

\* the candidate URLs of a srcset value: the first atom of every non-empty part
Candidates(items) ==
    LET parts == SplitComma(items, <<>>)
    IN  {SplitWs(parts[i])[1].v : i \in {j \in 1..Len(parts) : SplitWs(parts[j]) # <<>>}}

\* no tier has produced bytes for url in this job
NeverObtained(url) == url \notin DOMAIN resource_cache /\ url \notin DOMAIN network_resources

TokensPreserved(before, after) ==
    /\ Len(after) = Len(before)
    /\ \A j \in 1..Len(before) :
         (before[j].t = "url" /\ Resolvable(before[j].arg)
            /\ NeverObtained(urljoin(base_url, before[j].arg))) => after[j] = before[j]

ValuePreserved(e, n, v) ==
    CASE Resolvable(v) ->
           NeverObtained(urljoin(base_url, v)) => (n \in DOMAIN e.attrs /\ e.attrs[n] = v)
      [] v.kind = "srcset" ->
           (\A c \in Candidates(v.items) : Resolvable(c) /\ NeverObtained(urljoin(base_url, c)))
              => (n \in DOMAIN e.attrs /\ e.attrs[n] = v)
      [] v.kind = "css" ->
           n \in DOMAIN e.attrs /\ TokensPreserved(v.toks, e.attrs[n].toks)
      [] OTHER -> TRUE

\* C2: a reference (simple attribute, candidate list, url() token) that no tier
\* could resolve is byte-identical in the written document.
C2_UnresolvedPreserved ==
    pc = "done" =>
      \A i \in 1..Len(orig) :
        /\ \A n \in DOMAIN orig[i].attrs : ValuePreserved(index_html[i], n, orig[i].attrs[n])
        /\ orig[i].tag = "style" => TokensPreserved(orig[i].css, index_html[i].css)

\* C3: the map from saved URL to file name is injective, and every saved URL has
\* exactly one file and one cache entry.
C3_FilenamesInjective ==
    /\ \A u1, u2 \in DOMAIN resource_cache :
         u1 # u2 => resource_cache[u1] # resource_cache[u2]
    /\ \A u \in DOMAIN resource_cache : FileExists(resource_cache[u])
    /\ Cardinality(DOMAIN files) = Cardinality(DOMAIN resource_cache)

\* two saved URLs share their last path segment, and a saved URL was resolved
\* from two different references
C3_Witness ==
    /\ \E u1, u2 \in DOMAIN resource_cache : u1 # u2 /\ Last(u1.segs) = Last(u2.segs)
    /\ \E c1, c2 \in calls :
         c1.abs = c2.abs /\ c1.ref # c2.ref /\ c1.abs \in DOMAIN resource_cache

RootRelative(h) == Len(h) >= 1 /\ h[1] = "/" /\ (Len(h) = 1 \/ h[2] # "/")

\* C4: in the written document an anchor whose original href is "/" or another
\* root-relative path has href "#"; every other anchor keeps its href.
C4_RootNavigation ==
    pc = "done" =>
      \A i \in 1..Len(orig) :
        (orig[i].tag = "a" /\ "href" \in DOMAIN orig[i].attrs) =>
          index_html[i].attrs["href"] =
            (IF RootRelative(orig[i].attrs["href"].chars) THEN Text(<<"#">>)
             ELSE orig[i].attrs["href"])

\* a written document with a rewritten root-relative anchor next to a kept
\* protocol-relative or external one
C4_Witness ==
    /\ pc = "done"
    /\ \E i, j \in 1..Len(orig) :
         /\ RootRelative(orig[i].attrs["href"].chars)
         /\ Len(orig[i].attrs["href"].chars) > 1
         /\ index_html[i].attrs["href"] = Text(<<"#">>)
         /\ orig[j].attrs["href"].chars \in {<<"/", "/">>, ExternalHref}
         /\ index_html[j] = orig[j]

\* C5: the URL looked up for a url() token of a linked stylesheet is the token
\* joined against the stylesheet's own URL.
C5_StylesheetScoping ==
    \A l \in cssLookups :
      l.css_url = SheetUrl => l.looked = urljoin(SheetUrl, l.token)

\* a relative token of the sheet was looked up and fetched under the sheet's
\* directory, which differs from its join against the page URL; ../img/y.png of
\* css/x.css was looked up as /img/y.png
C5_Witness ==
    /\ \E l \in cssLookups :
         /\ l.css_url = SheetUrl /\ l.token = RelY
         /\ l.looked # urljoin(base_url, l.token)
         /\ l.looked \in DOMAIN fetches
    /\ \E l \in cssLookups :
         /\ l.css_url = SheetUrl /\ l.token = UpY
         /\ l.looked = AbsUrl("a.test", <<SegImg, SegY>>)

\* C6: the scroll loop makes at most max_iterations scroll steps whatever the
\* page reports, and when the loop is left the scroll-to-top step is issued.
C6_BoundedProbe ==
    /\ scrolls <= max_iterations
    /\ iteration <= max_iterations
    /\ spc = "done" => toTop
    /\ toTop => spc = "done"

\* the probe ended because of the cap: the page still reported more height
C6_Witness ==
    /\ spc = "done" /\ toTop
    /\ scrolls = max_iterations
    /\ current < total_height

SpriteUrl == AbsUrl("a.test", <<SegCss, SegSprite>>)
LazyUrl == AbsUrl("a.test", <<SegLazy>>)
SpriteFile == [base |-> <<"s", "p", "r", "i", "t", "e">>, hash |-> Md5Prefix(SpriteUrl),
               ext |-> <<".", "p", "n", "g">>]
LazyFile == [base |-> <<"l", "a", "z", "y">>, hash |-> Md5Prefix(LazyUrl),
             ext |-> <<".", "j", "p", "g">>]
SheetFile == [base |-> <<"x">>, hash |-> Md5Prefix(AbsUrl("a.test", <<SegCss, SegXCss>>)),
              ext |-> <<".", "c", "s", "s">>]

\* the end-to-end job has finished and every fetch it made succeeded
E2EDone == pc = "done" /\ orig = E2EDoc /\ failures = 0

E2EDocument(assets) ==
    /\ DOMAIN files = assets
    /\ files[SheetFile].toks[2] = UrlTok("dq", [kind |-> "local", dir |-> "", name |-> SpriteFile])
    /\ index_html[1].attrs["href"] = LocalPath(SheetFile)
    /\ index_html[2].attrs = ("src" :> LocalPath(LazyFile))
    /\ index_html[3].attrs["href"] = Text(<<"#">>)

\* C7 as stated: the asset directory of the end-to-end scenario holds exactly
\* the two files sprite_{hash}.png and lazy_{hash}.jpg.
C7_TwoAssets == E2EDone => E2EDocument({SpriteFile, LazyFile})

\* C7 amended: the asset directory holds exactly three files, the rewritten
\* stylesheet x_{hash}.css, sprite_{hash}.png and lazy_{hash}.jpg; the sheet's
\* rule points at sprite_{hash}.png, the link at assets/x_{hash}.css, the img
\* has src assets/lazy_{hash}.jpg and no data-src, the anchor's href is "#".
C7_EndToEnd == E2EDone => E2EDocument({SheetFile, SpriteFile, LazyFile})

\* the scenario finished with the sprite fetched by the fallback client
C7_Witness == E2EDone /\ SpriteUrl \in DOMAIN fetches /\ LazyUrl \in DOMAIN network_resources

\* C8: every resolve call returns the local path of a saved file or the
\* reference it was given, never None.
C8_PathOrOriginal ==
    \A c \in calls : c.ret = c.ref \/ (IsLocal(c.ret) /\ FileExists(c.ret))

ToksExist(toks) ==
    \A j \in 1..Len(toks) : (toks[j].t = "url" /\ IsLocal(toks[j].arg)) => FileExists(toks[j].arg)

\* C9: every reference the rewriter put into the written document names,
\* relative to the document, an existing file of the asset directory.
C9_RewrittenExist ==
    pc = "done" =>
      \A i \in 1..Len(index_html) :
        /\ ToksExist(index_html[i].css)
        /\ \A n \in DOMAIN index_html[i].attrs :
             LET v == index_html[i].attrs[n]
             IN  /\ IsLocal(v) => FileExists(v)
                 /\ v.kind = "css" => ToksExist(v.toks)
                 /\ v.kind = "srcset" =>
                      \A j \in 1..Len(v.items) :
                        (v.items[j].t = "atom" /\ IsLocal(v.items[j].v)) => FileExists(v.items[j].v)

\* C10: a failed fallback fetch never aborts the job: the job is never in the
\* aborted state, after a failure it stands at the next element to process or
\* at the save step, and when done it has written the document and returned True.
C10_FailureAbsorbed ==
    /\ pc # "aborted"
    /\ failures > 0 =>
         \/ pc \in {"save", "done"}
         \/ idx \in 1..Len(doc) /\ Matches(pc, doc[idx])
    /\ pc = "done" => (result = TRUE /\ index_html = doc)

\* a job in which a fetch failed, a later reference was still resolved, and
\* the document was written
C10_Witness ==
    /\ pc = "done" /\ result = TRUE /\ index_html = doc
    /\ \E u \in DOMAIN fetches : u \notin DOMAIN resource_cache
    /\ \E u \in DOMAIN fetches : u \in DOMAIN resource_cache

\* C11: when nothing but the blank page could be obtained process() reports a
\* failure (a false result) instead of success, while a failed navigation that
\* left partial content goes on and reports success
C11_NoContentFails ==
    jpc = "check" =>
        /\ html_content = "blank" => result = FALSE
        /\ (nav = "failed" /\ html_content = "partial") => result = TRUE

\* the partial-content half of C11 alone
C11_PartialProceeds ==
    (jpc = "check" /\ nav = "failed" /\ html_content = "partial") => result = TRUE

\* C12: once the error status is recorded for a job, neither its output
\* directory nor its zip file exists
C12_FailureLeavesNothing ==
    job_status = "error" => ~download_dir /\ ~zip_file

\* C13: the capture callback writes the captured-network map only before the
\* resolver has begun: no step changes the map once a reference was resolved, a
\* url() token looked up, a fetch made, a file saved or the document changed
C13_CaptureClosed ==
    [][network_resources' # network_resources =>
         /\ calls = {} /\ cssLookups = {} /\ fetches = <<>>
         /\ resource_cache = <<>> /\ files = <<>> /\ doc = orig]_vars

\* the resolver has served a reference from a captured entry
C13_Witness ==
    \E c \in calls : c.abs \in DOMAIN network_resources /\ IsLocal(c.ret)

\* C14: the resource cache only grows: no step removes or changes the path of a
\* cached URL, and no step rewrites or removes the file a cached URL names
C14_CacheOnlyGrows ==
    [][\A u \in DOMAIN resource_cache :
         /\ u \in DOMAIN resource_cache'
         /\ resource_cache'[u] = resource_cache[u]
         /\ resource_cache[u].name \in DOMAIN files'
         /\ files'[resource_cache[u].name] = files[resource_cache[u].name]]_vars

\* one sheet is linked twice and was saved for both links: the second save found
\* the URL in the cache
C14_Witness ==
    /\ Len(doc) = 2
    /\ \A i \in 1..2 : IsStylesheetLink(orig[i]) /\ IsLocal(Get(doc[i], "href"))
    /\ SheetUrl \in DOMAIN resource_cache

\* the references C15 is about: empty, data:, blob: and #fragment
Inert(ref) == ref.kind \in {"empty", "data", "blob", "frag"}

\* C15: resolving an empty, data:, blob: or # reference returns it unchanged and
\* has no effect: no fetch, no failure, no file, no cache entry, and the captured
\* map is as it was
C15_InertReferences ==
    [][\A c \in calls' \ calls :
         Inert(c.ref) =>
           /\ c.ret = c.ref
           /\ c.abs = c.ref
           /\ fetches' = fetches /\ failures' = failures
           /\ files' = files /\ resource_cache' = resource_cache
           /\ network_resources' = network_resources]_vars

\* an inert reference has been resolved while captured entries were at hand, and
\* so has a fetchable one, which was saved
C15_Witness ==
    /\ network_resources # <<>>
    /\ \E c \in calls : Inert(c.ref)
    /\ \E c \in calls : ~Inert(c.ref) /\ IsLocal(c.ret)

\* the patterns of Frame Resolution as its description states them
PatternA(pg) == \E i \in 1..Len(pg.frames) : pg.frames[i].top /\ pg.frames[i].kind = "srcdoc"
\* a preview element whose own frame has a URL that is not blank and content
\* that is not trivial
PreviewFrames(pg) ==
    {i \in 1..Len(pg.frames) :
        pg.frames[i].preview /\ pg.frames[i].kind # "blank" /\ pg.frames[i].size > 500}
PatternB(pg) == PreviewFrames(pg) # {}
PatternC(pg) == \E i \in 1..Len(pg.frames) : pg.frames[i].kind = "srcdoc" /\ pg.frames[i].size > 1000
ThinWrapper(pg) == pg.children <= 5 /\ \E i \in 1..Len(pg.frames) : pg.frames[i].top
PatternD(pg) ==
    ThinWrapper(pg) /\ \E i \in 1..Len(pg.frames) : 10 * pg.frames[i].size > 3 * pg.main_size
FirstPattern(pg) ==
    CASE PatternA(pg) -> "a"
      [] ~PatternA(pg) /\ PatternB(pg) -> "b"
      [] ~PatternA(pg) /\ ~PatternB(pg) /\ PatternC(pg) -> "c"
      [] ~PatternA(pg) /\ ~PatternB(pg) /\ ~PatternC(pg) /\ PatternD(pg) -> "d"
      [] OTHER -> "none"

\* C16: the patterns are tried in the order a, b, c, d and the first that matches
\* decides; in case b the content is that of the frame behind the matched preview
\* element and the base URL becomes that frame's URL, in case a the outer base
\* URL is kept, and with no match the top-level document and the page URL are used
C16_FirstPatternWins ==
    frame_result # None =>
        /\ frame_result.via = FirstPattern(page)
        /\ frame_result.via = "a" =>
             frame_result.content.from = "srcdoc" /\ frame_result.base = base_url
        /\ frame_result.via = "b" =>
             /\ frame_result.content.from = "content"
             /\ frame_result.content.frame \in PreviewFrames(page)
             /\ frame_result.base = FrameUrl(frame_result.content.frame)
        /\ frame_result.via = "none" =>
             ~frame_result.is_iframe /\ frame_result.base = base_url

\* C17: for a thin wrapper that no earlier pattern decided, a frame is preferred
\* exactly if some frame's content is at least 30% of the top document's size
C17_ThirtyPercent ==
    (/\ frame_result # None
     /\ frame_result.via \in {"d", "none"}
     /\ ThinWrapper(page)) =>
        (frame_result.via = "d"
           <=> \E i \in 1..Len(page.frames) : 10 * page.frames[i].size >= 3 * page.main_size)

\* C18: the scroll-fix pass is idempotent: a second application leaves the
\* document exactly as the first one left it
C18_FixIdempotent == Len(fixes) = 2 => fixes[2] = fixes[1]

\* C18 for the documents that have no head element
C18_IdempotentWithoutHead ==
    (Len(fixes) = 2 /\ ~fixes[1].has_head) => fixes[2] = fixes[1]

\* the sheet text as the rewriter has to leave it for the sheet at css_url:
\* every url() token a lookup has resolved to a saved file names that file
RewrittenSheet(css_url, known) ==
    [k \in 1..Len(sheetText) |->
       IF /\ sheetText[k].t = "url"
          /\ \E c \in known : /\ c.ref = TokenUrl(css_url, sheetText[k].arg)
                              /\ c.ret.kind = "local"
       THEN LET c == CHOOSE c \in known : /\ c.ref = TokenUrl(css_url, sheetText[k].arg)
                                           /\ c.ret.kind = "local"
            IN  UrlTok("dq", Basename(c.ret))
       ELSE sheetText[k]]

\* C19: when the stylesheet pass has pointed a link at a saved file, that file
\* holds the sheet text with its url() tokens rewritten
C19_SheetFileRewritten ==
    [][(pc = "stylesheets" /\ pc' # "aborted" /\ Get(doc'[idx], "href").kind = "local") =>
          LET css_url == urljoin(base_url, Get(doc[idx], "href"))
              path    == Get(doc'[idx], "href")
          IN  /\ path.name \in DOMAIN files'
              /\ files'[path.name] = CssBody(RewrittenSheet(css_url, calls'))]_vars

ResourceName == <<"r", "e", "s", "o", "u", "r", "c", "e">>

\* the base name is a bounded token over the safe characters and the suffix
\* holds no path separator
WellFormedName(fn) ==
    /\ Len(fn.base) <= MaxNameLen
    /\ \A i \in 1..Len(fn.base) : fn.base[i] \in SafeChars
    /\ fn.hash = Md5Prefix(name_url.url)
    /\ \A i \in 1..Len(fn.ext) : fn.ext[i] # "/"

\* C20: a generated file name is {baseName}_{hash}{extension} with a non-empty
\* base name of at most 30 safe characters, which is 'resource' when the last
\* path segment is empty or starts with a dot
C20_FilenameForm ==
    filename # None =>
        LET seg == Last(name_url.url.segs)
        IN  /\ WellFormedName(filename)
            /\ filename.base # <<>>
            /\ (seg = <<>> \/ seg[1] = ".") => filename.base = ResourceName

\* C20 for the segments that do not start with a dot
C20_NamedSegments ==
    (filename # None /\ (Last(name_url.url.segs) = <<>> \/ Last(name_url.url.segs)[1] # ".")) =>
        /\ WellFormedName(filename)
        /\ filename.base # <<>>
        /\ Last(name_url.url.segs) = <<>> => filename.base = ResourceName

\* the element of the page as found at position i is in document d
Kept(d, i) == \E j \in 1..Len(d) : Get(d[j], "data-k") = Get(orig[i], "data-k")

\* C21: when a framework is detected, every script whose source URL as found
\* contains an allow-listed fragment is still in the output document, rewritten
\* or not; when none is detected, de-hydration leaves the document as it is
C21_SafeScriptsKept ==
    [][pc = "save" =>
         /\ Detected(doc) =>
              \A i \in 1..Len(orig) :
                 (orig[i].tag = "script" /\ is_safe(SrcOf(orig[i]))) => Kept(index_html', i)
         /\ ~Detected(doc) => index_html' = doc]_vars

\* C21 for the allow-listed scripts whose src the script pass left as found
C21_UnrewrittenKept ==
    [][(pc = "save" /\ Detected(doc)) =>
         \A i \in 1..Len(doc) :
            (doc[i].tag = "script" /\ is_safe(SrcOf(doc[i]))) =>
               \E j \in 1..Len(index_html') : index_html'[j] = doc[i]]_vars

\* C22: the content of the effective document is captured only after the scroll
\* probe has run or has failed, for the top-level page and for a chosen frame
C22_ProbeBeforeCapture ==
    html_content \in {"page", "frame"} => spc \in {"done", "failed"}

\* C22 for a job whose effective document is the top-level page
C22_TopLevelProbed == html_content = "page" => spc \in {"done", "failed"}

\* C23: for a session with a connected stream client, once the job has finished
\* the stream eventually emits the 'done' event and ends
C23_StreamEnds ==
    (stream_pc \in {"get", "check"} /\ jpc = "end") ~> (stream_pc = "closed" /\ last_event = "done")

\* C23 for a client that picks up the last message after the status was recorded
C23_LateClientEnds ==
    (stream_pc \in {"get", "check"} /\ jpc = "end" /\ queue # <<>> /\ in_results)
        ~> (stream_pc = "closed" \/ ~in_results)

Removed == ~in_queues /\ ~in_results

\* C24: every session that start_download created is eventually removed from
\* message_queues and download_results, and a zip file is served only under the
\* status complete
C24_SessionsRemoved ==
    /\ (in_queues \/ in_results) ~> Removed
    /\ [](served_status \in {"none", "complete"})

\* C24 for the sessions that end complete, downloaded or abandoned
C24_CompleteRemoved == (in_results /\ job_status = "complete") ~> Removed

\* C24: a zip file is served only for a session whose status is complete
C24_ServedOnlyComplete == served_status \in {"none", "complete"}
====
